---- MODULE Spec2Model ----
(***************************************************************************)
(* The SAR pipeline, in parts, each with its own specification:            *)
(*   Spec          filling the widgets of a fillable PDF template from a   *)
(*                 request (resources/new_pdf_filler.py);                  *)
(*   SpecRename    renaming the widgets (resources/update_field_names.py); *)
(*   SpecDiscover  the two field scanners (resources/analyze_pdf_fields.py *)
(*                 and analyze_pdf_fields of update_field_names.py);       *)
(*   SpecAgents    PDFFillingAgent.run (agents/agent_07_pdf_filling.py);   *)
(*   SpecWorkflow  SARWorkflowManager.run                                  *)
(*                 (workflows/sar_workflow_manager.py), and                *)
(*                 SpecWorkflowFair, the same with its steps taken;        *)
(*   SpecIngest    DataIngestionAgent.run                                  *)
(*                 (agents/agent_01_data_ingestion.py);                    *)
(*   SpecCompose   the renaming followed by the filling of its output;     *)
(*   SpecApp       the runs of the page script (app.py).                   *)
(*                                                                         *)
(* Representation.  Every PDF token and every Python string is a sequence  *)
(* of character tokens.  A pdfrw PdfString is kept in its raw form, with   *)
(* its delimiters: (abc) is <<"(", "a", "b", "c", ")">>.  A PdfName is one *)
(* token, <<"/Yes">>.  An absent dictionary key is the empty sequence.     *)
(* A document is the sequence of the annotations of its pages, in page     *)
(* order (pages without /Annots contribute nothing to either loop).        *)
(***************************************************************************)
EXTENDS Integers, Sequences, FiniteSets, TLC

VARIABLES
    template,           \* what PdfReader(template_path) meets: "ok", "missing", "noInfo"
    hasAcroForm,        \* whether template_pdf.Root.AcroForm exists
    decodeAcceptsCodec, \* whether PdfString.decode('utf-8', errors='ignore') returns
    native,             \* the annotations of the first file given to the program
    doc0,               \* the annotations as read from the input file of the running call
    doc,                \* the annotations of the in-memory document
    data,               \* fill_sar_pdf's request: field name -> value
    field_mappings,     \* update_pdf_field_names' mapping: base name -> new name
    pc,                 \* position in the running function
    idx,                \* index of the next annotation of the loop
    processed_fields,   \* fill_sar_pdf's set of field names seen
    unprocessed_data,   \* fill_sar_pdf's data_keys - processed_fields
    unmapped_fields,    \* update_pdf_field_names' set of base names without mapping
    log,                \* the records handed to the logger
    needAppearances,    \* AcroForm.NeedAppearances of the in-memory document
    output,             \* the file at output_path: whether written, and its content
    passes              \* completed runs of update_pdf_field_names

\* the state of fill_sar_pdf and update_pdf_field_names
engineVars == <<template, hasAcroForm, decodeAcceptsCodec, native, doc0, doc, data,
                field_mappings, pc, idx, processed_fields, unprocessed_data,
                unmapped_fields, log, needAppearances, output, passes>>

VARIABLES
    scanner,            \* the analyze_pdf_fields that runs: "analyzer" or "renamer"
    scan_pdf,           \* what PdfReader(pdf_path) returns: readable, annots, parents
    scan_pc,            \* position in the running analyze_pdf_fields
    scan_idx,           \* index of the next annotation of the running loop
    field_info,         \* analyze_pdf_fields.py: the field table
    button_fields,      \* update_field_names.py: base name -> the buttons of the first pass
    radio_groups,       \* update_field_names.py: base name -> group entry
    fields,             \* update_field_names.py: the field table
    scan_log,           \* the records the scan hands to the logger
    scan_result         \* what the scan returned or saved

\* the state of the two analyze_pdf_fields
discoveryVars == <<scanner, scan_pdf, scan_pc, scan_idx, field_info, button_fields,
                   radio_groups, fields, scan_log, scan_result>>

VARIABLES
    clock,              \* datetime.now(), in whole seconds
    template_exists,    \* os.path.exists(template_path)
    run_pc,             \* position of each PDFFillingAgent.run invocation
    output_dir,         \* the output_dir argument of each invocation
    output_path,        \* the output_path each invocation computed
    files,              \* the files under the output directories: path -> last writer
    run_result          \* what each invocation returned

\* the state of the PDFFillingAgent.run invocations
agentVars == <<clock, template_exists, run_pc, output_dir, output_path, files, run_result>>

VARIABLES
    wf_pc,                    \* position in SARWorkflowManager.run
    analysis_results,         \* the argument of run: "valid", "empty" or "not_dict"
    max_iterations,           \* self.max_iterations
    iteration,                \* the loop variable of run
    current_status,
    current_sar_report,
    last_verification_result,
    iteration_data,
    iteration_results,
    error_message,
    final_result,             \* what run returned
    calls                     \* the calls made to the two agents, in order

\* the state of SARWorkflowManager.run
workflowVars == <<wf_pc, analysis_results, max_iterations, iteration, current_status,
                  current_sar_report, last_verification_result, iteration_data,
                  iteration_results, error_message, final_result, calls>>

VARIABLES
    ing_pc,                   \* position in DataIngestionAgent.run
    raw_transaction_data,     \* the argument of run
    ing_idx,                  \* index of the next item of input_transactions
    seen_transactions,        \* self.seen_transactions
    processed_transactions,   \* self.processed_transactions
    ing_log,                  \* the records handed to logging: <<level, item>>
    ing_result                \* the "transactions" list run returned

\* the state of DataIngestionAgent.run
ingestionVars == <<ing_pc, raw_transaction_data, ing_idx, seen_transactions,
                   processed_transactions, ing_log, ing_result>>

VARIABLES
    app_pc,                   \* position in the run of the app script
    clicked,                  \* the widget whose click started this run of the script
    session_state,            \* st.session_state: the SAR data and the filled PDF path
    can_run_workflow,         \* client and transaction_data and AGENTS_LOADED
    PDF_FILLER_LOADED,
    workflow_results,         \* the script's name workflow_results, when it is bound
    workflow_status,
    can_fill_pdf,
    fill_button,              \* the 'Fill SAR PDF Form' button as last drawn
    script_runs               \* the runs of the script so far

\* the state of the app script and of its page
appVars == <<app_pc, clicked, session_state, can_run_workflow, PDF_FILLER_LOADED,
             workflow_results, workflow_status, can_fill_pdf, fill_button, script_runs>>

\* what the engine leaves alone
outsideEngine == <<discoveryVars, agentVars, workflowVars, ingestionVars,
                     appVars>>

\* what the two analyze_pdf_fields leave alone
outsideDiscovery == <<engineVars, agentVars, workflowVars, ingestionVars,
                     appVars>>

\* what PDFFillingAgent.run leaves alone
outsideAgents == <<engineVars, discoveryVars, workflowVars, ingestionVars,
                     appVars>>

\* what SARWorkflowManager.run leaves alone
outsideWorkflow == <<engineVars, discoveryVars, agentVars, ingestionVars,
                     appVars>>

\* what DataIngestionAgent.run leaves alone
outsideIngestion == <<engineVars, discoveryVars, agentVars, workflowVars, appVars>>

\* what the app script leaves alone
outsideApp == <<engineVars, discoveryVars, agentVars, workflowVars, ingestionVars>>

vars == <<engineVars, discoveryVars, agentVars, workflowVars, ingestionVars, appVars>>

(***************************************************************************)
(* Bounds                                                                  *)
(***************************************************************************)
MaxWidgets == 2
MaxPasses == 2
MaxRuns == 2
MaxClock == 2
MaxIterations == 3
MaxTransactions == 3
MaxScriptRuns == 3

(***************************************************************************)
(* Parts of the program that are not running                               *)
(***************************************************************************)
DiscoveryIdle ==
    /\ scanner = "none"
    /\ scan_pdf = [readable |-> FALSE, annots |-> <<>>, kidsReversed |-> FALSE]
    /\ scan_pc = "idle"
    /\ scan_idx = 1
    /\ field_info = <<>>
    /\ button_fields = <<>>
    /\ radio_groups = <<>>
    /\ fields = <<>>
    /\ scan_log = {}
    /\ scan_result = [kind |-> "none", table |-> <<>>]

AgentsIdle ==
    /\ clock = 0
    /\ template_exists = TRUE
    /\ run_pc = <<>>
    /\ output_dir = <<>>
    /\ output_path = <<>>
    /\ files = <<>>
    /\ run_result = <<>>

\* Python's None, and a key that was never set
None == [kind |-> "none", id |-> 0, status |-> ""]
Unset == [kind |-> "unset", id |-> 0, status |-> ""]

WorkflowIdle ==
    /\ wf_pc = "idle"
    /\ analysis_results = "valid"
    /\ max_iterations = 1
    /\ iteration = 0
    /\ current_status = "needs_generation"
    /\ current_sar_report = None
    /\ last_verification_result = None
    /\ iteration_data = <<>>
    /\ iteration_results = <<>>
    /\ error_message = "none"
    /\ final_result = <<>>
    /\ calls = <<>>

IngestionIdle ==
    /\ ing_pc = "idle"
    /\ raw_transaction_data = [shape |-> "none", transactions |-> <<>>]
    /\ ing_idx = 1
    /\ seen_transactions = {}
    /\ processed_transactions = <<>>
    /\ ing_log = {}
    /\ ing_result = <<>>

\* a name the script has not bound, and the results before any workflow ran
Unbound == [bound |-> FALSE, final_status |-> "", has_report |-> FALSE]
NoSession == [sar_data |-> FALSE, filled_pdf_path |-> FALSE]

AppIdle ==
    /\ app_pc = "idle"
    /\ clicked = "none"
    /\ session_state = NoSession
    /\ can_run_workflow = FALSE
    /\ PDF_FILLER_LOADED = FALSE
    /\ workflow_results = Unbound
    /\ workflow_status = "unset"
    /\ can_fill_pdf = FALSE
    /\ fill_button = "not_drawn"
    /\ script_runs = 0

(***************************************************************************)
(* Strings and PDF objects                                                 *)
(***************************************************************************)
Absent == <<>>

RECURSIVE lstrip(_)
lstrip(s) == IF s # <<>> /\ Head(s) \in {"(", ")"} THEN lstrip(Tail(s)) ELSE s

RECURSIVE rstrip(_)
rstrip(s) ==
    IF s # <<>> /\ s[Len(s)] \in {"(", ")"} THEN rstrip(SubSeq(s, 1, Len(s) - 1)) ELSE s

\* str.strip("()"): drops every leading and trailing parenthesis
strip_parens(s) == rstrip(lstrip(s))

\* pdfrw.PdfString.encode(text): the literal string (text)
PdfString_encode(s) == <<"(">> \o s \o <<")">>

\* isinstance(obj, pdfrw.PdfString): the tokenizer makes a PdfString of a (...) literal
IsPdfString(obj) == obj # <<>> /\ Head(obj) = "("

\* PdfString.to_unicode: the text between the delimiters
PdfString_text(obj) == SubSeq(obj, 2, Len(obj) - 1)

\* pdfrw.PdfName('Yes'), pdfrw.PdfName('Off')
CHECKBOX_CHECK_STATE == <<"/Yes">>
CHECKBOX_OFF_STATE == <<"/Off">>

(***************************************************************************)
(* Request values: bool, str or None                                       *)
(***************************************************************************)
BoolVal(b) == [t |-> "bool", b |-> b, s |-> <<>>]
StrVal(s) == [t |-> "str", b |-> FALSE, s |-> s]
NoneVal == [t |-> "none", b |-> FALSE, s |-> <<>>]

\* Python's str(value)
py_str(value) ==
    CASE value.t = "bool" -> IF value.b THEN <<"T", "r", "u", "e">>
                                        ELSE <<"F", "a", "l", "s", "e">>
      [] value.t = "none" -> <<"N", "o", "n", "e">>
      [] OTHER -> value.s

\* Python's bool(value), as "CHECK if value else OFF" takes it
py_truthy(value) ==
    CASE value.t = "bool" -> value.b
      [] value.t = "none" -> FALSE
      [] OTHER -> value.s # <<>>

\* Python's int(obj) on a PdfObject token: a digit string converts, anything else raises
IsIntLiteral(obj) == Len(obj) = 1 /\ obj[1] \in {"0", "1", "2", "3"}
IntOf(obj) == CASE obj[1] = "0" -> 0 [] obj[1] = "1" -> 1 [] obj[1] = "2" -> 2 [] OTHER -> 3

\* Optional[int]
NoneInt == [some |-> FALSE, n |-> 0]
SomeInt(n) == [some |-> TRUE, n |-> n]

\* one call of the logger
Entry(level, what, field) == [level |-> level, what |-> what, field |-> field]

(***************************************************************************)
(* Annotations                                                             *)
(***************************************************************************)
NoAP == [present |-> FALSE, hasN |-> FALSE, N |-> {}]
APwithoutN == [present |-> TRUE, hasN |-> FALSE, N |-> {}]
APwithN(states) == [present |-> TRUE, hasN |-> TRUE, N |-> states]

Annotation(subtype, t, ft, v, as, ap, maxlen, parent) ==
    [Subtype |-> subtype, T |-> t, FT |-> ft, V |-> v, AS |-> as, AP |-> ap,
     MaxLen |-> maxlen, Parent |-> parent]

(***************************************************************************)
(* new_pdf_filler.py                                                       *)
(***************************************************************************)
\* "not ap_dict or not isinstance(ap_dict, PdfDict)" is false: /AP is a non-empty dictionary
has_ap_dict(annotation) == annotation.AP.present

\* /AP /N is a non-empty dictionary
has_normal_appearances(annotation) == annotation.AP.hasN /\ annotation.AP.N # {}

\* lines 54-57: one warning for each of the two states /AP /N does not define
missing_state_warnings(annotation) ==
    (IF "/Yes" \in annotation.AP.N THEN {} ELSE {Entry("warning", "missingYes", annotation.T)})
    \cup
    (IF "/Off" \in annotation.AP.N THEN {} ELSE {Entry("warning", "missingOff", annotation.T)})

\* fill_checkbox that updates /V alone
fill_checkbox_value_only(annotation, value) ==
    LET state_to_set == IF py_truthy(value) THEN CHECKBOX_CHECK_STATE ELSE CHECKBOX_OFF_STATE
    IN  [ann |-> [annotation EXCEPT !.V = state_to_set],
         log |-> IF has_ap_dict(annotation) /\ has_normal_appearances(annotation)
                 THEN missing_state_warnings(annotation)
                 ELSE {Entry("warning", "lacksAP", annotation.T)}]

\* fill_checkbox that gives up on a widget without usable appearances
fill_checkbox_giving_up(annotation, value) ==
    LET state_to_set == IF py_truthy(value) THEN CHECKBOX_CHECK_STATE ELSE CHECKBOX_OFF_STATE
    IN  IF ~has_ap_dict(annotation) \/ ~has_normal_appearances(annotation)
        THEN [ann |-> annotation, log |-> {Entry("warning", "lacksAP", annotation.T)}]
        ELSE [ann |-> [annotation EXCEPT !.V = state_to_set, !.AS = state_to_set],
              log |-> missing_state_warnings(annotation)]

fill_checkbox(annotation, value) ==
    LET state_to_set == IF py_truthy(value) THEN CHECKBOX_CHECK_STATE ELSE CHECKBOX_OFF_STATE
        current_name == annotation.T
    IN  IF ~has_ap_dict(annotation)
        THEN [ann |-> [annotation EXCEPT !.V = state_to_set],
              log |-> {Entry("warning", "lacksAP", current_name)}]
        ELSE IF ~has_normal_appearances(annotation)
        THEN [ann |-> [annotation EXCEPT !.V = state_to_set],
              log |-> {Entry("warning", "lacksN", current_name)}]
        ELSE [ann |-> [annotation EXCEPT !.V = state_to_set, !.AS = state_to_set],
              log |-> missing_state_warnings(annotation)]

\* fill_text that cuts one character late
fill_text_off_by_one(annotation, value, max_length) ==
    LET str_value == IF value.t # "none" THEN py_str(value) ELSE <<>>
        cut == IF max_length.some /\ max_length.n > 0
               THEN SubSeq(str_value, 1, IF Len(str_value) < max_length.n + 1
                                         THEN Len(str_value) ELSE max_length.n + 1)
               ELSE str_value
    IN  [ann |-> [annotation EXCEPT !.V = PdfString_encode(cut)], log |-> {}]

fill_text(annotation, value, max_length) ==
    LET str_value == IF value.t # "none" THEN py_str(value) ELSE <<>>
        cut == IF max_length.some /\ max_length.n > 0
               THEN SubSeq(str_value, 1, IF Len(str_value) < max_length.n
                                         THEN Len(str_value) ELSE max_length.n)
               ELSE str_value
    IN  [ann |-> [annotation EXCEPT !.V = PdfString_encode(cut)], log |-> {}]

\* lines 131-135: the field name of a widget; decoding a PdfString raises TypeError
\* when PdfString.decode takes no codec arguments
extract_field_name(annotation, codecOk) ==
    IF IsPdfString(annotation.T)
    THEN IF codecOk THEN [raised |-> FALSE, name |-> PdfString_text(annotation.T)]
                    ELSE [raised |-> TRUE, name |-> <<>>]
    ELSE [raised |-> FALSE, name |-> strip_parens(annotation.T)]

\* line 154: int(annotation.get('/MaxLen', 0)) if '/MaxLen' in annotation else None
read_max_len(annotation) ==
    IF annotation.MaxLen = Absent THEN [raised |-> FALSE, val |-> NoneInt]
    ELSE IF IsIntLiteral(annotation.MaxLen)
         THEN [raised |-> FALSE, val |-> SomeInt(IntOf(annotation.MaxLen))]
         ELSE [raised |-> TRUE, val |-> NoneInt]

\* a handler that logs the exception and raises it again
field_error_propagating(annotation) ==
    [ann |-> annotation, log |-> {Entry("error", "processing", annotation.T)},
     propagates |-> TRUE]

\* lines 170-172: the handler of the per-annotation try logs the exception and
\* lets the loop go on
field_error(annotation) ==
    [ann |-> annotation, log |-> {Entry("error", "processing", annotation.T)},
     propagates |-> FALSE]

\* a loop body that ended without an exception
field_done(annotation, entries) == [ann |-> annotation, log |-> entries, propagates |-> FALSE]

\* no_data with line 167 active: a field without data is cleared
no_data_clearing(annotation, field_name) ==
    field_done([annotation EXCEPT !.V = PdfString_encode(<<>>)],
               {Entry("debug", "noData", field_name)})

\* lines 163-167: a field the request has no entry for is only logged
no_data(annotation, field_name) ==
    field_done(annotation, {Entry("debug", "noData", field_name)})

\* lines 149-152 without the isinstance test: any value is taken for its truth value
button_field_coercing(annotation, field_name, value) ==
    LET r == fill_checkbox(annotation, value)
    IN  field_done(r.ann, r.log)

\* lines 149-152: a Button field takes a boolean and nothing else
button_field(annotation, field_name, value) ==
    IF value.t = "bool"
    THEN LET r == fill_checkbox(annotation, value)
         IN  field_done(r.ann, r.log)
    ELSE field_done(annotation, {Entry("warning", "expectedBoolean", field_name)})

\* lines 143-167: one named widget against the request
fill_field(annotation, field_name, request) ==
    IF field_name \in DOMAIN request
    THEN LET value == request[field_name]
             field_type == annotation.FT
         IN  CASE field_type = <<"/Btn">> -> button_field(annotation, field_name, value)
               [] field_type = <<"/Tx">> ->
                    LET max_len == read_max_len(annotation)
                    IN  IF max_len.raised THEN field_error(annotation)
                        ELSE LET r == fill_text(annotation, value, max_len.val)
                             IN  field_done(r.ann, r.log)
               [] field_type = <<"/Ch">> ->
                    LET r == fill_text(annotation, value, NoneInt)
                    IN  field_done(r.ann,
                                   r.log \cup {Entry("info", "choiceAsText", field_name)})
               [] OTHER ->
                    field_done(annotation, {Entry("warning", "unsupportedType", field_name)})
    ELSE no_data(annotation, field_name)

\* line 126: annotations the loop passes over
is_skipped(annotation) == annotation.Subtype # <<"/Widget">> \/ annotation.T = Absent

\* line 137: names the loop passes over
is_blank_name(field_name) == field_name = <<>> \/ field_name = <<"N", "o", "n", "e">>

\* lines 126-172: the body of the loop over page.Annots, for one annotation
process_annotation(annotation, request, processed, codecOk) ==
    IF is_skipped(annotation)
    THEN [processed |-> processed] @@ field_done(annotation, {})
    ELSE LET nm == extract_field_name(annotation, codecOk)
         IN  IF nm.raised
             THEN [processed |-> processed] @@ field_error(annotation)
             ELSE IF is_blank_name(nm.name)
             THEN [processed |-> processed] @@ field_done(annotation, {})
             ELSE [processed |-> processed \cup {nm.name}]
                  @@ fill_field(annotation, nm.name, request)

(***************************************************************************)
(* fill_sar_pdf as a state machine                                         *)
(***************************************************************************)
NoOutput == [written |-> FALSE, annots |-> <<>>, needAppearances |-> FALSE]

\* lines 114-118: PdfReader(template_path), then template_pdf.Info.Creator = ...
LoadTemplate ==
    /\ pc = "fill_start"
    /\ pc' = IF template = "ok" THEN "fill_loop" ELSE "fill_raised"
    /\ log' = log \cup (IF template = "ok" THEN {}
                         ELSE {Entry("error", IF template = "missing" THEN "templateNotFound"
                                              ELSE "general", Absent)})
    /\ idx' = 1
    /\ processed_fields' = {}
    /\ UNCHANGED <<template, hasAcroForm, decodeAcceptsCodec, native, doc0, doc, data,
                   field_mappings, unprocessed_data, unmapped_fields, needAppearances,
                   output, passes>>
    /\ UNCHANGED outsideEngine

\* lines 120-172: one iteration of the loops over pages and page.Annots
ProcessAnnotation ==
    /\ pc = "fill_loop"
    /\ idx <= Len(doc)
    /\ LET r == process_annotation(doc[idx], data, processed_fields, decodeAcceptsCodec)
       IN  /\ doc' = [doc EXCEPT ![idx] = r.ann]
           /\ processed_fields' = r.processed
           /\ log' = log \cup r.log
           /\ pc' = IF r.propagates THEN "fill_raised" ELSE pc
    /\ idx' = idx + 1
    /\ UNCHANGED <<template, hasAcroForm, decodeAcceptsCodec, native, doc0, data,
                   field_mappings, unprocessed_data, unmapped_fields, needAppearances,
                   output, passes>>
    /\ UNCHANGED outsideEngine

\* lines 175-179: the request keys that matched no processed field
ReportUnprocessed ==
    /\ pc = "fill_loop"
    /\ idx > Len(doc)
    /\ unprocessed_data' = DOMAIN data \ processed_fields
    /\ log' = log \cup (IF unprocessed_data' # {} THEN {Entry("warning", "notFound", Absent)}
                         ELSE {})
    /\ pc' = "fill_mark"
    /\ UNCHANGED <<template, hasAcroForm, decodeAcceptsCodec, native, doc0, doc, data,
                   field_mappings, idx, processed_fields, unmapped_fields,
                   needAppearances, output, passes>>
    /\ UNCHANGED outsideEngine

\* marking that goes on when there is no AcroForm to mark
acroform_update_lenient(has_form, need) == [raised |-> FALSE, need |-> need]

\* marking that leaves NeedAppearances as it was
acroform_update_forgetful(has_form, need) == [raised |-> ~has_form, need |-> need]

\* line 182: template_pdf.Root.AcroForm.update(PdfDict(NeedAppearances=true));
\* without an AcroForm, Root.AcroForm is None and .update raises AttributeError
acroform_update(has_form, need) ==
    IF has_form THEN [raised |-> FALSE, need |-> TRUE] ELSE [raised |-> TRUE, need |-> need]

\* lines 181-182, and 191-193 when the marking raises: the outer handler logs
\* and raises again
MarkNeedAppearances ==
    /\ pc = "fill_mark"
    /\ LET r == acroform_update(hasAcroForm, needAppearances)
       IN  /\ needAppearances' = r.need
           /\ pc' = IF r.raised THEN "fill_raised" ELSE "fill_write"
           /\ log' = IF r.raised THEN log \cup {Entry("error", "general", Absent)} ELSE log
    /\ UNCHANGED <<template, hasAcroForm, decodeAcceptsCodec, native, doc0, doc, data,
                   field_mappings, idx, processed_fields, unprocessed_data,
                   unmapped_fields, output, passes>>
    /\ UNCHANGED outsideEngine

\* lines 184-186: PdfWriter().write(output_path, template_pdf)
WriteOutput ==
    /\ pc = "fill_write"
    /\ output' = [written |-> TRUE, annots |-> doc, needAppearances |-> needAppearances]
    /\ pc' = "fill_done"
    /\ UNCHANGED <<template, hasAcroForm, decodeAcceptsCodec, native, doc0, doc, data,
                   field_mappings, idx, processed_fields, unprocessed_data,
                   unmapped_fields, log, needAppearances, passes>>
    /\ UNCHANGED outsideEngine

(***************************************************************************)
(* Inputs of fill_sar_pdf                                                  *)
(***************************************************************************)
\* descriptive field names
NameP == <<"p">>
NameQ == <<"q">>
NameNone == <<"N", "o", "n", "e">>

BothStates == APwithN({"/Yes", "/Off"})

\* the annotations a template page may hold
FillAnnotations ==
    { \* two options of one grouped control, both unchecked; the /T of the second
      \* is not a string object
      Annotation(<<"/Widget">>, PdfString_encode(NameP), <<"/Btn">>, CHECKBOX_OFF_STATE,
                 CHECKBOX_OFF_STATE, BothStates, Absent, <<"g">>),
      Annotation(<<"/Widget">>, NameQ, <<"/Btn">>, CHECKBOX_OFF_STATE, CHECKBOX_OFF_STATE,
                 BothStates, Absent, <<"g">>),
      \* independent checkboxes: no /AP, /AP without /N, /N without /Off
      Annotation(<<"/Widget">>, PdfString_encode(NameQ), <<"/Btn">>, Absent, Absent, NoAP,
                 Absent, Absent),
      Annotation(<<"/Widget">>, PdfString_encode(NameP), <<"/Btn">>, Absent, Absent,
                 APwithoutN, Absent, Absent),
      Annotation(<<"/Widget">>, PdfString_encode(NameQ), <<"/Btn">>, CHECKBOX_CHECK_STATE,
                 CHECKBOX_CHECK_STATE, APwithN({"/Yes"}), Absent, Absent),
      \* text fields: /MaxLen 2, 0, absent, not an integer
      Annotation(<<"/Widget">>, PdfString_encode(NameP), <<"/Tx">>, PdfString_encode(<<"z">>),
                 Absent, NoAP, <<"2">>, Absent),
      Annotation(<<"/Widget">>, PdfString_encode(NameQ), <<"/Tx">>, Absent, Absent, NoAP,
                 <<"0">>, Absent),
      Annotation(<<"/Widget">>, NameP, <<"/Tx">>, PdfString_encode(<<"z">>), Absent, NoAP,
                 Absent, Absent),
      Annotation(<<"/Widget">>, PdfString_encode(NameP), <<"/Tx">>, Absent, Absent, NoAP,
                 <<"2", ".", "5">>, Absent),
      \* a choice field, a widget without /FT, a widget without /T, a link annotation
      Annotation(<<"/Widget">>, PdfString_encode(NameQ), <<"/Ch">>, Absent, Absent, NoAP,
                 <<"2">>, Absent),
      Annotation(<<"/Widget">>, PdfString_encode(NameP), Absent, Absent, Absent, NoAP,
                 Absent, Absent),
      Annotation(<<"/Widget">>, Absent, <<"/Btn">>, CHECKBOX_OFF_STATE, CHECKBOX_OFF_STATE,
                 BothStates, Absent, Absent),
      Annotation(<<"/Link">>, PdfString_encode(NameP), Absent, Absent, Absent, NoAP, Absent,
                 Absent),
      \* fields named "None" and ""
      Annotation(<<"/Widget">>, PdfString_encode(NameNone), <<"/Tx">>, Absent, Absent, NoAP,
                 Absent, Absent),
      Annotation(<<"/Widget">>, PdfString_encode(<<>>), <<"/Tx">>, Absent, Absent, NoAP,
                 Absent, Absent) }

FillDocuments == UNION {[1..n -> FillAnnotations] : n \in 0..MaxWidgets}

\* the values a request may give to a key
RequestValues(key) ==
    CASE key = NameP -> {BoolVal(TRUE), BoolVal(FALSE), StrVal(<<"x", "y", "z">>),
                         StrVal(<<"x">>)}
      [] key = NameQ -> {BoolVal(TRUE), NoneVal}
      [] OTHER -> {StrVal(<<"x">>)}

AllRequestValues == UNION {RequestValues(k) : k \in {NameP, NameQ, NameNone}}

FillRequests ==
    UNION {{f \in [K -> AllRequestValues] : \A k \in K : f[k] \in RequestValues(k)} :
           K \in SUBSET {NameP, NameQ, NameNone}}

InitFill ==
    /\ template \in {"ok", "missing", "noInfo"}
    /\ doc0 \in IF template = "ok" THEN FillDocuments ELSE {<<>>}
    /\ data \in IF template = "ok" THEN FillRequests ELSE {<<>>}
    /\ hasAcroForm \in IF template = "ok" /\ Len(doc0) <= 1 THEN BOOLEAN ELSE {TRUE}
    /\ decodeAcceptsCodec \in IF template = "ok" THEN BOOLEAN ELSE {FALSE}
    /\ doc = doc0
    /\ native = doc0
    /\ field_mappings = <<>>
    /\ pc = "fill_start"
    /\ idx = 1
    /\ processed_fields = {}
    /\ unprocessed_data = {}
    /\ unmapped_fields = {}
    /\ log = {}
    /\ needAppearances = FALSE
    /\ output = NoOutput
    /\ passes = 0
    /\ DiscoveryIdle
    /\ AgentsIdle
    /\ WorkflowIdle
    /\ IngestionIdle
    /\ AppIdle

NextFill ==
    \/ LoadTemplate
    \/ ProcessAnnotation
    \/ ReportUnprocessed
    \/ MarkNeedAppearances
    \/ WriteOutput

Spec == InitFill /\ [][NextFill]_vars

(***************************************************************************)
(* Vocabulary of the properties of fill_sar_pdf                            *)
(***************************************************************************)
\* the annotations the loop has been through
Visited(i) == pc # "fill_start" /\ i \in 1..Len(doc) /\ i < idx

\* the loop is over
LoopOver == pc \in {"fill_mark", "fill_write", "fill_done"}

IsWidget(annotation) == annotation.Subtype = <<"/Widget">>

\* the name a widget carries in the document: the text of its /T
NameOf(annotation) ==
    IF IsPdfString(annotation.T) THEN PdfString_text(annotation.T)
    ELSE strip_parens(annotation.T)

\* the loop has read the widget's name and found a value for it in the request
Reached(annotation) ==
    /\ ~is_skipped(annotation)
    /\ ~extract_field_name(annotation, decodeAcceptsCodec).raised
    /\ ~is_blank_name(extract_field_name(annotation, decodeAcceptsCodec).name)
    /\ extract_field_name(annotation, decodeAcceptsCodec).name \in DOMAIN data

ValueFor(annotation) == data[extract_field_name(annotation, decodeAcceptsCodec).name]

\* the widgets that are options of the grouped control of parent g
Siblings(g) == {i \in 1..Len(doc) : IsWidget(doc[i]) /\ doc[i].FT = <<"/Btn">>
                                     /\ doc[i].Parent = g}

Groups == {doc[i].Parent : i \in 1..Len(doc)} \ {Absent}

\* C1: when fill_sar_pdf has completed, in every group of Button widgets that share
\* a parent at most one widget carries the appearance state /Yes and every other
\* widget of the group carries /Off.
C1_GroupExclusive ==
    pc = "fill_done" =>
        \A g \in Groups :
            /\ Cardinality({i \in Siblings(g) : doc[i].AS = CHECKBOX_CHECK_STATE}) <= 1
            /\ \A i \in Siblings(g) :
                   doc[i].AS \in {CHECKBOX_CHECK_STATE, CHECKBOX_OFF_STATE}

\* C2: a widget whose field name has no entry in the request keeps its stored value
\* and its appearance state (indeed the whole annotation) through the fill and in the
\* written output, and visiting it never makes fill_sar_pdf raise.
C2_NoEntryUnchanged ==
    /\ \A i \in 1..Len(doc) :
           NameOf(doc0[i]) \notin DOMAIN data =>
               /\ doc[i] = doc0[i]
               /\ output.written => output.annots[i] = doc0[i]
    /\ (pc = "fill_raised" /\ template = "ok") => (~hasAcroForm /\ idx > Len(doc))

\* C2's case: the fill is done, another widget was filled, this one had no entry
C2_Witness ==
    /\ pc = "fill_done"
    /\ \E i, j \in 1..Len(doc) :
           /\ IsWidget(doc0[i]) /\ doc0[i].T # Absent
           /\ NameOf(doc0[i]) \notin DOMAIN data
           /\ doc0[i].V # Absent
           /\ doc[j] # doc0[j]

\* the text a request value stands for: str(value), and '' for None
TextForm(value) == IF value.t = "none" THEN <<>> ELSE py_str(value)

\* the state a boolean selects
StateFor(value) == IF value.b THEN CHECKBOX_CHECK_STATE ELSE CHECKBOX_OFF_STATE

\* a Text field the loop has filled: its /MaxLen, when present, is an integer
FilledText(annotation) ==
    /\ Reached(annotation)
    /\ annotation.FT = <<"/Tx">>
    /\ ~read_max_len(annotation).raised

\* C3 as stated: a filled Text field whose /MaxLen N is set holds the first N
\* characters of a longer value, and the whole of a value of at most N characters.
C3_TruncatedToMaxLen ==
    \A i \in 1..Len(doc) :
        (Visited(i) /\ FilledText(doc0[i]) /\ doc0[i].MaxLen # Absent) =>
            LET N == IntOf(doc0[i].MaxLen)
                text == TextForm(ValueFor(doc0[i]))
            IN  /\ IsPdfString(doc[i].V)
                /\ Len(text) > N =>
                       /\ Len(PdfString_text(doc[i].V)) = N
                       /\ PdfString_text(doc[i].V) = SubSeq(text, 1, N)
                /\ Len(text) <= N => PdfString_text(doc[i].V) = text

\* C3 amended: the same for N > 0; a field whose /MaxLen is 0, like a field
\* without /MaxLen, takes the whole text.
C3_TruncatedToPositiveMaxLen ==
    \A i \in 1..Len(doc) :
        (Visited(i) /\ FilledText(doc0[i])) =>
            LET limited == doc0[i].MaxLen # Absent /\ IntOf(doc0[i].MaxLen) > 0
                N == IntOf(doc0[i].MaxLen)
                text == TextForm(ValueFor(doc0[i]))
            IN  /\ IsPdfString(doc[i].V)
                /\ (limited /\ Len(text) > N) =>
                       /\ Len(PdfString_text(doc[i].V)) = N
                       /\ PdfString_text(doc[i].V) = SubSeq(text, 1, N)
                /\ (~limited \/ Len(text) <= N) => PdfString_text(doc[i].V) = text

\* C3's case: a text of three characters was written into a field of /MaxLen 2
C3_Witness ==
    \E i \in 1..Len(doc) :
        /\ Visited(i) /\ FilledText(doc0[i])
        /\ doc0[i].MaxLen = <<"2">>
        /\ Len(TextForm(ValueFor(doc0[i]))) = 3
        /\ doc[i].V = PdfString_encode(<<"x", "y">>)

\* the value's type is not the one the field kind takes: a boolean for a Button,
\* a string for a Text or a Choice field
TypeMismatch(annotation, value) ==
    \/ annotation.FT = <<"/Btn">> /\ value.t # "bool"
    \/ annotation.FT \in {<<"/Tx">>, <<"/Ch">>} /\ value.t # "str"

MismatchReported(annotation) ==
    \E e \in log : /\ e.level = "warning"
                    /\ e.what = "expectedBoolean"
                    /\ e.field = extract_field_name(annotation, decodeAcceptsCodec).name

\* the loop went through every annotation, whatever it met
EveryAnnotationVisited ==
    /\ (pc = "fill_loop") => idx <= Len(doc) + 1
    /\ LoopOver => idx = Len(doc) + 1
    /\ (pc = "fill_raised" /\ template = "ok") => (~hasAcroForm /\ idx = Len(doc) + 1)

FilledCheckbox(annotation) ==
    /\ Reached(annotation)
    /\ annotation.FT = <<"/Btn">>
    /\ ValueFor(annotation).t = "bool"

\* the catalog /AP /N of the widget holds both states
HasBothStates(annotation) ==
    /\ annotation.AP.present /\ annotation.AP.hasN
    /\ {"/Yes", "/Off"} \subseteq annotation.AP.N

AppearanceWarned(annotation) ==
    \E e \in log : /\ e.level = "warning"
                    /\ e.what \in {"lacksAP", "lacksN", "missingYes", "missingOff"}
                    /\ e.field = annotation.T

\* C6: fill_checkbox with boolean b on a widget whose /AP /N holds /Yes and /Off
\* sets /V and /AS both to /Yes when b is true and to /Off when b is false.
C6_CheckboxBothWritten ==
    \A i \in 1..Len(doc) :
        (Visited(i) /\ FilledCheckbox(doc0[i]) /\ HasBothStates(doc0[i])) =>
            /\ doc[i].V = StateFor(ValueFor(doc0[i]))
            /\ doc[i].AS = StateFor(ValueFor(doc0[i]))

\* C6's case: an unchecked widget with both states was checked
C6_Witness ==
    \E i \in 1..Len(doc) :
        /\ Visited(i) /\ FilledCheckbox(doc0[i]) /\ HasBothStates(doc0[i])
        /\ ValueFor(doc0[i]).b
        /\ doc0[i].AS = CHECKBOX_OFF_STATE
        /\ doc[i].AS = CHECKBOX_CHECK_STATE

\* C7: fill_checkbox with a boolean on a widget whose catalog lacks /Yes or /Off,
\* or that has no /AP or no /AP /N, still sets /V to the chosen state and logs a
\* warning; the loop goes on.
C7_CheckboxWithoutStates ==
    /\ \A i \in 1..Len(doc) :
           (Visited(i) /\ FilledCheckbox(doc0[i]) /\ ~HasBothStates(doc0[i])) =>
               /\ doc[i].V = StateFor(ValueFor(doc0[i]))
               /\ AppearanceWarned(doc0[i])
    /\ EveryAnnotationVisited

\* C7's case: a widget without /AP got its /V, with a warning, and the run ended
C7_Witness ==
    /\ pc = "fill_done"
    /\ \E i \in 1..Len(doc) :
           /\ FilledCheckbox(doc0[i]) /\ ~doc0[i].AP.present
           /\ doc0[i].V = Absent
           /\ doc[i].V = CHECKBOX_CHECK_STATE
           /\ AppearanceWarned(doc0[i])

\* the request keys that are the name of no widget of the document
KeysNamingNoWidget ==
    {k \in DOMAIN data :
        ~\E i \in 1..Len(doc0) : /\ IsWidget(doc0[i])
                                  /\ doc0[i].T # Absent
                                  /\ NameOf(doc0[i]) = k}

\* C5: once the loop is over, the request keys reported as unused are exactly the
\* request keys that name no widget of the document; such a key raises nothing and
\* the loop has gone through every annotation.
C5_UnusedKeysExact ==
    /\ LoopOver => unprocessed_data = KeysNamingNoWidget
    /\ EveryAnnotationVisited

\* C10: a problem with one annotation never ends fill_sar_pdf: the loop goes
\* through every annotation, each widget ends as the loop body leaves it on its
\* own, whatever happened to the others, and with a form to mark the run never
\* raises, can always go on, and ends with the document written.
C10_FieldProblemsContained ==
    /\ EveryAnnotationVisited
    /\ \A i \in 1..Len(doc) :
           doc[i] = IF Visited(i)
                    THEN process_annotation(doc0[i], data, {}, decodeAcceptsCodec).ann
                    ELSE doc0[i]
    /\ (template = "ok" /\ hasAcroForm) => pc # "fill_raised"
    /\ pc \notin {"fill_done", "fill_raised"} => ENABLED NextFill
    /\ pc = "fill_done" => (output.written /\ output.annots = doc)

\* C10's case: an annotation raised, a later widget was filled, the file was written
C10_Witness ==
    /\ pc = "fill_done" /\ output.written
    /\ \E i, j \in 1..Len(doc) :
           /\ i < j
           /\ \E e \in log : e.level = "error" /\ e.field = doc0[i].T
           /\ extract_field_name(doc0[i], decodeAcceptsCodec).raised
               \/ (Reached(doc0[i]) /\ read_max_len(doc0[i]).raised)
           /\ output.annots[j] # doc0[j]

\* a condition that ends fill_sar_pdf: no file at template_path, a file PdfReader
\* or Info.Creator cannot take, a document without AcroForm
FatalCondition == template # "ok" \/ ~hasAcroForm

\* C11: with a fatal condition fill_sar_pdf ends by raising and the output file is
\* never written; the file is written by the last step only, after the loop and
\* the marking, and a run that raised wrote nothing.
C11_FatalWritesNothing ==
    /\ FatalCondition => (~output.written /\ pc \notin {"fill_write", "fill_done"})
    /\ (template # "ok" /\ pc # "fill_start") => pc = "fill_raised"
    /\ (~hasAcroForm /\ template = "ok" /\ LoopOver) => pc = "fill_mark"
    /\ pc = "fill_raised" => output = NoOutput
    /\ output.written <=> pc = "fill_done"

\* C11's case: a widget was filled in memory, the document has no AcroForm, the
\* run raised and there is no output
C11_Witness ==
    /\ pc = "fill_raised" /\ template = "ok" /\ ~hasAcroForm
    /\ \E i \in 1..Len(doc) : doc[i] # doc0[i]
    /\ output = NoOutput

\* C12: NeedAppearances is set after the last annotation has been processed and
\* before the file is written: it is unset while the loop runs, set when the
\* write is reached, and every written file carries it.
C12_MarkedBeforeWrite ==
    /\ pc \in {"fill_start", "fill_loop", "fill_mark"} => ~needAppearances
    /\ needAppearances => (idx = Len(doc) + 1 /\ pc \in {"fill_write", "fill_done"})
    /\ pc = "fill_write" => (needAppearances /\ ~output.written)
    /\ output.written => (output.needAppearances /\ output.annots = doc)

\* C12's case: a run that filled a widget ended with the mark in the file
C12_Witness ==
    /\ pc = "fill_done" /\ output.written /\ output.needAppearances
    /\ \E i \in 1..Len(doc) : output.annots[i] # doc0[i]

\* what C13 compares of an annotation: identifier, kind, value, appearance state
Profile(annotation) ==
    [Subtype |-> annotation.Subtype, T |-> annotation.T, FT |-> annotation.FT,
     V |-> annotation.V, AS |-> annotation.AS]

\* C13: with an empty request the file written holds as many annotations as the
\* template, each with the identifier, kind, stored value and appearance state
\* it has in the template.
C13_EmptyRequestPreserves ==
    (DOMAIN data = {} /\ output.written) =>
        /\ Len(output.annots) = Len(doc0)
        /\ \A i \in 1..Len(doc0) : Profile(output.annots[i]) = Profile(doc0[i])

\* C13's case: a template with a checked box and a valued text field went through
\* a fill with an empty request
C13_Witness ==
    /\ pc = "fill_done" /\ output.written /\ DOMAIN data = {}
    /\ \E i, j \in 1..Len(doc0) :
           /\ doc0[i].AS = CHECKBOX_CHECK_STATE /\ output.annots[i].AS = CHECKBOX_CHECK_STATE
           /\ IsPdfString(doc0[j].V) /\ output.annots[j].V = doc0[j].V

\* the template diverges from what the request expects: the request names
\* fields and no widget of the template carries any of these names
TemplateDiverges ==
    /\ DOMAIN data # {}
    /\ \A i \in 1..Len(doc0) :
           ~(IsWidget(doc0[i]) /\ doc0[i].T # Absent /\ NameOf(doc0[i]) \in DOMAIN data)

\* C18: a template that diverges from what the request expects is refused:
\* fill_sar_pdf does not complete on it and writes no output.
C18_DivergentTemplateRefused ==
    TemplateDiverges => (pc # "fill_done" /\ ~output.written)

(***************************************************************************)
(* update_field_names.py                                                   *)
(***************************************************************************)
IsDigit(c) == c \in {"0", "1", "2", "3", "4", "5", "6", "7", "8", "9"}

\* str(annotation["/T"]).strip("()"): a missing /T reads as None, str(None) is "None"
widget_field_name(annotation) ==
    IF annotation.T = Absent THEN <<"N", "o", "n", "e">> ELSE strip_parens(annotation.T)

\* the longest prefix of s without a "."
RECURSIVE leading_non_dots(_)
leading_non_dots(s) ==
    IF s = <<>> \/ Head(s) = "." THEN <<>> ELSE <<Head(s)>> \o leading_non_dots(Tail(s))

\* re.match(r'([^.]+)', field_name): no match when the name starts with "."
base_name_matches(field_name) == leading_non_dots(field_name) # <<>>
base_name_of(field_name) == leading_non_dots(field_name)

\* the number of digits s ends with
RECURSIVE trailing_digits(_)
trailing_digits(s) ==
    IF s = <<>> \/ ~IsDigit(s[Len(s)]) THEN 0
    ELSE 1 + trailing_digits(SubSeq(s, 1, Len(s) - 1))

\* re.search(r'(\.\d+)$', field_name): the final ".digits", or nothing
suffix_of(field_name) ==
    LET k == trailing_digits(field_name)
    IN  IF k >= 1 /\ Len(field_name) > k /\ field_name[Len(field_name) - k] = "."
        THEN SubSeq(field_name, Len(field_name) - k, Len(field_name))
        ELSE <<>>

\* lines 407-412: the new name of a field whose base name has a mapping
new_name_of(field_name, mappings) ==
    mappings[base_name_of(field_name)] \o suffix_of(field_name)

\* an else branch that writes the name read back into /T, delimiters included
keep_unmapped_reencoding(annotation, field_name) ==
    [raised |-> FALSE, ann |-> [annotation EXCEPT !.T = PdfString_encode(annotation.T)],
     unmapped |-> {base_name_of(field_name)},
     log |-> {Entry("warning", "noMapping", base_name_of(field_name))}]

\* lines 417-419: a field without mapping is recorded by its base name and kept
keep_unmapped(annotation, field_name) ==
    [raised |-> FALSE, ann |-> annotation, unmapped |-> {base_name_of(field_name)},
     log |-> {Entry("warning", "noMapping", base_name_of(field_name))}]

\* lines 399-419: the body of the loop, for one annotation
rename_annotation(annotation, mappings) ==
    LET field_name == widget_field_name(annotation)
        same == [raised |-> FALSE, ann |-> annotation, unmapped |-> {}, log |-> {}]
    IN  IF annotation.Subtype # <<"/Widget">> \/ field_name = <<>> THEN same
        ELSE IF ~base_name_matches(field_name) THEN [same EXCEPT !.raised = TRUE]
        ELSE IF base_name_of(field_name) \in DOMAIN mappings
        THEN [same EXCEPT !.ann = [annotation EXCEPT
                              !.T = PdfString_encode(new_name_of(field_name, mappings))],
                          !.log = {Entry("debug", "renamed", field_name)}]
        ELSE keep_unmapped(annotation, field_name)

\* lines 381-391: the backup copy and PdfReader(pdf_path); a missing file raises
RenameStart ==
    /\ pc = "rename_start"
    /\ pc' = IF template = "ok" THEN "rename_loop" ELSE "rename_raised"
    /\ idx' = 1
    /\ unmapped_fields' = {}
    /\ UNCHANGED <<template, hasAcroForm, decodeAcceptsCodec, native, doc0, doc, data,
                   field_mappings, processed_fields, unprocessed_data, log,
                   needAppearances, output, passes>>
    /\ UNCHANGED outsideEngine

\* lines 394-419: one iteration of the loops over pages and page.Annots
RenameAnnotation ==
    /\ pc = "rename_loop"
    /\ idx <= Len(doc)
    /\ LET r == rename_annotation(doc[idx], field_mappings)
       IN  /\ doc' = [doc EXCEPT ![idx] = r.ann]
           /\ unmapped_fields' = unmapped_fields \cup r.unmapped
           /\ log' = log \cup r.log
           /\ pc' = IF r.raised THEN "rename_raised" ELSE pc
    /\ idx' = idx + 1
    /\ UNCHANGED <<template, hasAcroForm, decodeAcceptsCodec, native, doc0, data,
                   field_mappings, processed_fields, unprocessed_data, needAppearances,
                   output, passes>>
    /\ UNCHANGED outsideEngine

\* lines 421-429: PdfWriter().write(output_path, pdf), then the report of unmapped fields
RenameWrite ==
    /\ pc = "rename_loop"
    /\ idx > Len(doc)
    /\ output' = [written |-> TRUE, annots |-> doc, needAppearances |-> needAppearances]
    /\ log' = log \cup {Entry("warning", "withoutMapping", f) : f \in unmapped_fields}
    /\ passes' = passes + 1
    /\ pc' = "rename_done"
    /\ UNCHANGED <<template, hasAcroForm, decodeAcceptsCodec, native, doc0, doc, data,
                   field_mappings, idx, processed_fields, unprocessed_data,
                   unmapped_fields, needAppearances>>
    /\ UNCHANGED outsideEngine

\* update_pdf_field_names called again, on the file the last call wrote
RenameAgain ==
    /\ pc = "rename_done"
    /\ passes < MaxPasses
    /\ doc0' = output.annots
    /\ doc' = output.annots
    /\ output' = NoOutput
    /\ pc' = "rename_start"
    /\ UNCHANGED <<template, hasAcroForm, decodeAcceptsCodec, native, data,
                   field_mappings, idx, processed_fields, unprocessed_data,
                   unmapped_fields, log, needAppearances, passes>>
    /\ UNCHANGED outsideEngine

(***************************************************************************)
(* Inputs of update_pdf_field_names                                        *)
(***************************************************************************)
\* native field names
NameA == <<"a">>
NameB == <<"b">>

\* the annotations a native template page may hold
RenameAnnotations ==
    { Annotation(<<"/Widget">>, PdfString_encode(NameA), <<"/Tx">>, Absent, Absent, NoAP,
                 <<"2">>, Absent),
      Annotation(<<"/Widget">>, PdfString_encode(NameA \o <<".", "0">>), <<"/Btn">>,
                 CHECKBOX_OFF_STATE, CHECKBOX_OFF_STATE, BothStates, Absent, NameA),
      Annotation(<<"/Widget">>, PdfString_encode(NameA \o <<".", "1", "0">>), <<"/Btn">>,
                 CHECKBOX_OFF_STATE, CHECKBOX_OFF_STATE, BothStates, Absent, NameA),
      Annotation(<<"/Widget">>, PdfString_encode(NameB), <<"/Btn">>, Absent, Absent, NoAP,
                 Absent, Absent),
      Annotation(<<"/Widget">>, PdfString_encode(NameB \o <<".", "x">>), <<"/Tx">>, Absent,
                 Absent, NoAP, Absent, Absent),
      Annotation(<<"/Widget">>, PdfString_encode(NameP), <<"/Tx">>, Absent, Absent, NoAP,
                 Absent, Absent),
      Annotation(<<"/Widget">>, NameB, <<"/Tx">>, Absent, Absent, NoAP, Absent, Absent),
      Annotation(<<"/Widget">>, PdfString_encode(<<".", "0">>), <<"/Tx">>, Absent, Absent,
                 NoAP, Absent, Absent),
      Annotation(<<"/Widget">>, PdfString_encode(<<>>), <<"/Tx">>, Absent, Absent, NoAP,
                 Absent, Absent),
      Annotation(<<"/Widget">>, Absent, <<"/Btn">>, Absent, Absent, NoAP, Absent, Absent),
      Annotation(<<"/Link">>, PdfString_encode(NameA), Absent, Absent, Absent, NoAP, Absent,
                 Absent) }

RenameDocuments == UNION {[1..n -> RenameAnnotations] : n \in 0..MaxWidgets}

\* the new names a mapping may give: descriptive names, a name that is itself a
\* native name, and the empty name
NewNames == {NameP, NameQ, NameB, <<>>}

Mappings == UNION {[K -> NewNames] : K \in SUBSET {NameA, NameB}}

InitRename ==
    /\ template \in {"ok", "missing"}
    /\ doc0 \in IF template = "ok" THEN RenameDocuments ELSE {<<>>}
    /\ field_mappings \in IF template = "ok" THEN Mappings ELSE {<<>>}
    /\ hasAcroForm = TRUE
    /\ decodeAcceptsCodec = FALSE
    /\ doc = doc0
    /\ native = doc0
    /\ data = <<>>
    /\ pc = "rename_start"
    /\ idx = 1
    /\ processed_fields = {}
    /\ unprocessed_data = {}
    /\ unmapped_fields = {}
    /\ log = {}
    /\ needAppearances = FALSE
    /\ output = NoOutput
    /\ passes = 0
    /\ DiscoveryIdle
    /\ AgentsIdle
    /\ WorkflowIdle
    /\ IngestionIdle
    /\ AppIdle

NextRename ==
    \/ RenameStart
    \/ RenameAnnotation
    \/ RenameWrite
    \/ RenameAgain

SpecRename == InitRename /\ [][NextRename]_vars

(***************************************************************************)
(* Properties of update_pdf_field_names                                    *)
(***************************************************************************)
\* no new name is empty or, cut at its first ".", a key of the mapping
MappingIsStable(mappings) ==
    \A k \in DOMAIN mappings :
        /\ mappings[k] # <<>>
        /\ Head(mappings[k]) # "."
        /\ leading_non_dots(mappings[k]) \notin DOMAIN mappings

\* a second call changes nothing and does not raise
SecondPassChangesNothing ==
    /\ (passes >= 1 /\ pc # "rename_done") => doc = doc0
    /\ (passes >= 2 /\ pc = "rename_done") => (doc = doc0 /\ output.annots = doc0)
    /\ (pc = "rename_raised" /\ template = "ok") => passes = 0

\* C8 as stated: for every document and every mapping, update_pdf_field_names on
\* an already renamed document leaves every annotation as it is and does not raise.
C8_RenameIdempotent == SecondPassChangesNothing

\* C8 amended: that holds for every mapping none of whose new names is empty or,
\* cut at its first ".", a key of the mapping.
C8_RenameIdempotentWhenStable ==
    MappingIsStable(field_mappings) => SecondPassChangesNothing

\* C8's case: the first call renamed a widget and the second call has ended
C8_Witness ==
    /\ pc = "rename_done" /\ passes = 2
    /\ MappingIsStable(field_mappings)
    /\ doc0 # native
    /\ output.annots = doc0

\* the identifier is a key of the mapping, or a key followed by "." and more
MatchesKey(field_name, k) ==
    \/ field_name = k
    \/ /\ Len(field_name) > Len(k)
       /\ SubSeq(field_name, 1, Len(k)) = k
       /\ field_name[Len(k) + 1] = "."

\* a widget the loop looks at: it has a non-empty name
Named(annotation) == IsWidget(annotation) /\ widget_field_name(annotation) # <<>>

Matched(annotation) ==
    Named(annotation)
    /\ \E k \in DOMAIN field_mappings : MatchesKey(widget_field_name(annotation), k)

KeyOf(annotation) ==
    CHOOSE k \in DOMAIN field_mappings : MatchesKey(widget_field_name(annotation), k)

\* the call has ended, with the file written or with an exception
RenameEnded == template = "ok" /\ pc \in {"rename_done", "rename_raised"}

\* C9: update_pdf_field_names ends with the file written; in it every widget whose
\* identifier matches a mapping entry carries the mapped name followed by its
\* group-option suffix and is otherwise as before; every other annotation is as
\* before, and if it is a widget its identifier, cut at the first ".", is in the
\* unmapped set; the unmapped set holds no renamed widget.
C9_RenamedOrReported ==
    RenameEnded =>
        /\ pc = "rename_done"
        /\ \A i \in 1..Len(doc0) :
               IF Matched(doc0[i])
               THEN /\ doc[i] = [doc0[i] EXCEPT !.T = PdfString_encode(
                                     field_mappings[KeyOf(doc0[i])]
                                     \o suffix_of(widget_field_name(doc0[i])))]
                    /\ KeyOf(doc0[i]) \notin unmapped_fields
               ELSE /\ doc[i] = doc0[i]
                    /\ IsWidget(doc0[i]) =>
                           leading_non_dots(widget_field_name(doc0[i])) \in unmapped_fields
        /\ unmapped_fields \cap DOMAIN field_mappings = {}
        /\ output.written /\ output.annots = doc

(***************************************************************************)
(* analyze_pdf_fields.py                                                   *)
(*                                                                         *)
(* The scanned document has one annotation on each page, so the page       *)
(* number of an annotation is its position.  /Parent of an annotation      *)
(* names one of the parent dictionaries of parent_dict; the /Kids of a     *)
(* parent are the annotations that point to it.                            *)
(***************************************************************************)
Item5 == <<"i", "t", "e", "m", "5">>
Item28 == <<"i", "t", "e", "m", "2", "8">>
Item29 == <<"i", "t", "e", "m", "2", "9">>
Item30 == <<"i", "t", "e", "m", "3", "0">>
Item31 == <<"i", "t", "e", "m", "3", "1">>
Item38 == <<"i", "t", "e", "m", "3", "8">>
Item39 == <<"i", "t", "e", "m", "3", "9">>

\* line 98: the base names get_field_name takes for checkbox groups
checkbox_group_names == {Item5, Item28, Item29, Item30, Item31, Item38, Item39}

\* the parent dictionaries of the scanned documents: /T, whether /Kids is there,
\* and whether /Kids lists the widgets that point to the parent
parent_dict(id) ==
    CASE id = <<"g">> -> [T |-> PdfString_encode(Item5), hasKids |-> TRUE, lists |-> TRUE]
      [] id = <<"h">> -> [T |-> PdfString_encode(<<"g", "r", "p">>), hasKids |-> TRUE,
                          lists |-> TRUE]
      [] id = <<"k">> -> [T |-> Absent, hasKids |-> TRUE, lists |-> TRUE]
      [] id = <<"m">> -> [T |-> PdfString_encode(Item28), hasKids |-> TRUE, lists |-> FALSE]
      [] OTHER -> [T |-> PdfString_encode(Item29), hasKids |-> FALSE, lists |-> FALSE]

RECURSIVE Reverse(_)
Reverse(seq) == IF seq = <<>> THEN <<>> ELSE Reverse(Tail(seq)) \o <<Head(seq)>>

\* the positions, in page order, of the annotations whose /Parent is id
RECURSIVE pointing_to(_, _, _)
pointing_to(annots, id, i) ==
    IF i > Len(annots) THEN <<>>
    ELSE (IF annots[i].Parent = id THEN <<i>> ELSE <<>>) \o pointing_to(annots, id, i + 1)

\* parent["/Kids"]: the declared child sequence, as positions in the document
kids_of(pdf, id) ==
    IF ~parent_dict(id).lists THEN <<>>
    ELSE IF pdf.kidsReversed THEN Reverse(pointing_to(pdf.annots, id, 1))
    ELSE pointing_to(pdf.annots, id, 1)

\* list.index: the 0-based position of the first occurrence; ValueError when absent
index_in(seq, x) ==
    IF \E n \in 1..Len(seq) : seq[n] = x
    THEN [raised |-> FALSE, idx |-> (CHOOSE n \in 1..Len(seq) :
                                         seq[n] = x /\ \A m \in 1..(n - 1) : seq[m] # x) - 1]
    ELSE [raised |-> TRUE, idx |-> 0]

\* chr(ord('a') + idx)
letter_suffix(index) ==
    <<"a", "b", "c", "d", "e", "f", "g", "h", "i", "j", "k", "l", "m", "n", "o", "p", "q",
      "r", "s", "t", "u", "v", "w", "x", "y", "z">>[index + 1]

\* lines 80-109: the name a widget is recorded under
get_field_name(pdf, i) ==
    LET annotation == pdf.annots[i]
        parent == annotation.Parent
        base_name == IF parent # Absent /\ parent_dict(parent).T # Absent
                     THEN strip_parens(parent_dict(parent).T)
                     ELSE widget_field_name(annotation)
    IN  IF base_name \in checkbox_group_names
           /\ parent # Absent /\ parent_dict(parent).hasKids
           /\ ~index_in(kids_of(pdf, parent), i).raised
        THEN base_name \o <<letter_suffix(index_in(kids_of(pdf, parent), i).idx)>>
        ELSE base_name

\* lines 16-78, and 141: the properties recorded for a widget, with its page
analyze_field_properties(field, page_num) ==
    [name |-> widget_field_name(field),
     type |-> field.FT,
     page |-> page_num,
     current_value |-> field.V,
     appearance_state |-> field.AS,
     max_length |-> IF field.FT = <<"/Tx">> THEN field.MaxLen ELSE Absent,
     states |-> IF field.FT = <<"/Btn">> /\ field.AP.present /\ field.AP.hasN
                THEN field.AP.N ELSE {},
     is_radio_button |-> field.FT = <<"/Btn">> /\ field.Parent # Absent]

\* field_info[field_name] = field_data
put(table, key, value) == [k \in DOMAIN table \cup {key} |-> IF k = key THEN value ELSE table[k]]

\* lines 129-152: the body of the loop over page.Annots, for the annotation at i
analyze_annotation(pdf, i, table) ==
    LET annotation == pdf.annots[i]
        field_name == get_field_name(pdf, i)
    IN  IF annotation.Subtype # <<"/Widget">> \/ field_name = <<>>
        THEN [table |-> table, log |-> {}]
        ELSE [table |-> put(table, field_name, analyze_field_properties(annotation, i)),
              log |-> {Entry("debug", "analyzed", field_name)}]

\* lines 119-122, 179-181: PdfReader(pdf_path); what it raises is logged and raised again
ReportLoad ==
    /\ scanner = "analyze_pdf_fields.py"
    /\ scan_pc = "scan_start"
    /\ scan_pc' = IF scan_pdf.readable THEN "report_loop" ELSE "scan_raised"
    /\ scan_log' = IF scan_pdf.readable THEN scan_log
                   ELSE scan_log \cup {Entry("error", "analyzing", Absent)}
    /\ field_info' = <<>>
    /\ scan_idx' = 1
    /\ UNCHANGED <<scanner, scan_pdf, button_fields, radio_groups, fields, scan_result>>
    /\ UNCHANGED outsideDiscovery

\* lines 125-152: one iteration of the loops over pages and page.Annots
ReportAnnotation ==
    /\ scan_pc = "report_loop"
    /\ scan_idx <= Len(scan_pdf.annots)
    /\ LET r == analyze_annotation(scan_pdf, scan_idx, field_info)
       IN  /\ field_info' = r.table
           /\ scan_log' = scan_log \cup r.log
    /\ scan_idx' = scan_idx + 1
    /\ UNCHANGED <<scanner, scan_pdf, scan_pc, button_fields, radio_groups, fields,
                   scan_result>>
    /\ UNCHANGED outsideDiscovery

\* lines 154-159: json.dump(field_info, f) into output_path
ReportSave ==
    /\ scan_pc = "report_loop"
    /\ scan_idx > Len(scan_pdf.annots)
    /\ scan_result' = [kind |-> "saved", table |-> field_info]
    /\ scan_log' = scan_log \cup {Entry("info", "complete", Absent)}
    /\ scan_pc' = "scan_done"
    /\ UNCHANGED <<scanner, scan_pdf, scan_idx, field_info, button_fields, radio_groups,
                   fields>>
    /\ UNCHANGED outsideDiscovery

(***************************************************************************)
(* update_field_names.py: analyze_pdf_fields                               *)
(***************************************************************************)
\* str(None)
NoneText == <<"N", "o", "n", "e">>

\* an entry of fields or radio_groups; keys the code does not set are absent
FieldEntry(name, type, page) ==
    [name |-> name, type |-> type, page |-> page, options |-> {}, states |-> {},
     appearance_state |-> Absent, value |-> Absent, max_length |-> Absent,
     current_value |-> Absent]

\* lines 254-259: the name of the parent of a button, None without parent or /T
parent_name_of(annotation) ==
    IF annotation.Parent # Absent /\ parent_dict(annotation.Parent).T # Absent
    THEN strip_parens(parent_dict(annotation.Parent).T)
    ELSE Absent

\* lines 246-270: the body of the first loop, for the annotation at i
collect_button(pdf, i, buttons) ==
    LET annotation == pdf.annots[i]
        field_name == widget_field_name(annotation)
        same == [raised |-> FALSE, buttons |-> buttons, log |-> {}]
    IN  IF annotation.Subtype # <<"/Widget">> \/ field_name = <<>> THEN same
        ELSE IF annotation.FT # <<"/Btn">> THEN same
        ELSE IF ~base_name_matches(field_name) THEN [same EXCEPT !.raised = TRUE]
        ELSE LET base_name == base_name_of(field_name)
                 button == [name |-> field_name, page |-> i, annotation |-> annotation,
                            parent_name |-> parent_name_of(annotation)]
                 before == IF base_name \in DOMAIN buttons THEN buttons[base_name] ELSE <<>>
             IN  [raised |-> FALSE,
                  buttons |-> put(buttons, base_name, Append(before, button)),
                  log |-> IF button.parent_name # Absent
                          THEN {Entry("debug", "buttonWithParent", button.parent_name)}
                          ELSE {}]

\* line 275: any(button['parent_name'] for button in buttons)
has_parent(buttons) == \E n \in 1..Len(buttons) : buttons[n].parent_name # <<>>

\* lines 285-294: the states other than /Off of the buttons of a group
group_options(buttons) ==
    UNION {IF buttons[n].annotation.AP.present /\ buttons[n].annotation.AP.hasN
           THEN buttons[n].annotation.AP.N \ {"/Off"} ELSE {} : n \in 1..Len(buttons)}

\* lines 278-283: the entry of a radio group
radio_group_entry(base_name, buttons) ==
    [FieldEntry(base_name, <<"/Btn">>, buttons[1].page)
        EXCEPT !.options = group_options(buttons)]

\* lines 296-331: the entry of a checkbox, made from the first button of its base name
checkbox_entry(buttons) ==
    LET button == buttons[1]
        annotation == button.annotation
    IN  [FieldEntry(button.name, <<"/Btn">>, button.page)
            EXCEPT !.states = IF annotation.AP.present /\ annotation.AP.hasN
                              THEN annotation.AP.N ELSE {},
                   !.appearance_state = annotation.AS,
                   !.value = annotation.V]

\* lines 273-283: the base names that become radio groups
detect_radio_groups(buttons_by_base) ==
    LET grouped == {b \in DOMAIN buttons_by_base : has_parent(buttons_by_base[b])}
    IN  [b \in grouped |-> radio_group_entry(b, buttons_by_base[b])]

\* lines 295-304: the base names without any parent give one checkbox each
detect_checkboxes(buttons_by_base) ==
    LET single == {b \in DOMAIN buttons_by_base : ~has_parent(buttons_by_base[b])}
        names == {buttons_by_base[b][1].name : b \in single}
    IN  [n \in names |->
            checkbox_entry(buttons_by_base[CHOOSE b \in single :
                                               buttons_by_base[b][1].name = n])]

\* lines 345-373: the body of the last loop, for the annotation at i
add_non_button(pdf, i, table) ==
    LET annotation == pdf.annots[i]
        field_name == widget_field_name(annotation)
        field_type == IF annotation.FT = Absent THEN NoneText ELSE annotation.FT
    IN  IF annotation.Subtype # <<"/Widget">> \/ field_name = <<>> THEN table
        ELSE IF field_type = <<"/Btn">> THEN table
        ELSE put(table, field_name,
                 IF field_type = <<"/Tx">>
                 THEN [FieldEntry(field_name, field_type, i)
                          EXCEPT !.max_length = annotation.MaxLen,
                                 !.current_value = annotation.V]
                 ELSE FieldEntry(field_name, field_type, i))

\* line 376: fields.update(radio_groups)
dict_update(table, other) ==
    [k \in DOMAIN table \cup DOMAIN other |-> IF k \in DOMAIN other THEN other[k] ELSE table[k]]

\* lines 235-240: PdfReader(pdf_path); what it raises leaves the function
CollectLoad ==
    /\ scanner = "update_field_names.py"
    /\ scan_pc = "scan_start"
    /\ scan_pc' = IF scan_pdf.readable THEN "button_loop" ELSE "scan_raised"
    /\ fields' = <<>>
    /\ radio_groups' = <<>>
    /\ button_fields' = <<>>
    /\ scan_idx' = 1
    /\ UNCHANGED <<scanner, scan_pdf, field_info, scan_log, scan_result>>
    /\ UNCHANGED outsideDiscovery

\* lines 241-270: one iteration of the first loops over pages and page.Annots
CollectButton ==
    /\ scan_pc = "button_loop"
    /\ scan_idx <= Len(scan_pdf.annots)
    /\ LET r == collect_button(scan_pdf, scan_idx, button_fields)
       IN  /\ button_fields' = r.buttons
           /\ scan_log' = scan_log \cup r.log
           /\ scan_pc' = IF r.raised THEN "scan_raised" ELSE scan_pc
    /\ scan_idx' = scan_idx + 1
    /\ UNCHANGED <<scanner, scan_pdf, field_info, radio_groups, fields, scan_result>>
    /\ UNCHANGED outsideDiscovery

\* lines 272-337: the second pass, over the base names of the buttons
DetectGroups ==
    /\ scan_pc = "button_loop"
    /\ scan_idx > Len(scan_pdf.annots)
    /\ radio_groups' = detect_radio_groups(button_fields)
    /\ fields' = detect_checkboxes(button_fields)
    /\ scan_log' = scan_log \cup {Entry("debug", "radioGroup", b) :
                                      b \in DOMAIN detect_radio_groups(button_fields)}
    /\ scan_idx' = 1
    /\ scan_pc' = "non_button_loop"
    /\ UNCHANGED <<scanner, scan_pdf, field_info, button_fields, scan_result>>
    /\ UNCHANGED outsideDiscovery

\* lines 340-373: one iteration of the last loops over pages and page.Annots
AddNonButton ==
    /\ scan_pc = "non_button_loop"
    /\ scan_idx <= Len(scan_pdf.annots)
    /\ fields' = add_non_button(scan_pdf, scan_idx, fields)
    /\ scan_idx' = scan_idx + 1
    /\ UNCHANGED <<scanner, scan_pdf, scan_pc, field_info, button_fields, radio_groups,
                   scan_log, scan_result>>
    /\ UNCHANGED outsideDiscovery

\* lines 375-377: the radio groups are added and the table is returned
ReturnFields ==
    /\ scan_pc = "non_button_loop"
    /\ scan_idx > Len(scan_pdf.annots)
    /\ fields' = dict_update(fields, radio_groups)
    /\ scan_result' = [kind |-> "returned", table |-> fields']
    /\ scan_pc' = "scan_done"
    /\ UNCHANGED <<scanner, scan_pdf, scan_idx, field_info, button_fields, radio_groups,
                   scan_log>>
    /\ UNCHANGED outsideDiscovery

(***************************************************************************)
(* Inputs of the two analyze_pdf_fields                                    *)
(***************************************************************************)
EngineIdle ==
    /\ template = "ok"
    /\ hasAcroForm = TRUE
    /\ decodeAcceptsCodec = FALSE
    /\ native = <<>>
    /\ doc0 = <<>>
    /\ doc = <<>>
    /\ data = <<>>
    /\ field_mappings = <<>>
    /\ pc = "idle"
    /\ idx = 1
    /\ processed_fields = {}
    /\ unprocessed_data = {}
    /\ unmapped_fields = {}
    /\ log = {}
    /\ needAppearances = FALSE
    /\ output = NoOutput
    /\ passes = 0

Btn(t, as, ap, parent) == Annotation(<<"/Widget">>, t, <<"/Btn">>, as, as, ap, Absent, parent)

\* the annotations a scanned page may hold
ScanAnnotations ==
    { \* two options of the group of parent g, named item5
      Btn(PdfString_encode(<<"x", ".", "0">>), CHECKBOX_OFF_STATE, BothStates, <<"g">>),
      Btn(PdfString_encode(<<"x", ".", "1">>), CHECKBOX_OFF_STATE,
          APwithN({"/1", "/Off"}), <<"g">>),
      \* independent buttons that share a prefix, and one that shares it with the group
      Btn(PdfString_encode(<<"y", ".", "0">>), CHECKBOX_OFF_STATE, BothStates, Absent),
      Btn(PdfString_encode(<<"y", ".", "1">>), CHECKBOX_CHECK_STATE, BothStates, Absent),
      Btn(PdfString_encode(<<"x">>), CHECKBOX_OFF_STATE, BothStates, Absent),
      \* two options of the group of parent h, whose name is not in the list of line 98
      Btn(PdfString_encode(<<"c">>), CHECKBOX_OFF_STATE, BothStates, <<"h">>),
      Btn(PdfString_encode(<<"d">>), CHECKBOX_CHECK_STATE, BothStates, <<"h">>),
      \* a button whose parent has no /T, one whose parent's /Kids does not list it
      Btn(PdfString_encode(<<"e">>), CHECKBOX_OFF_STATE, NoAP, <<"k">>),
      Btn(PdfString_encode(<<"f">>), CHECKBOX_OFF_STATE, NoAP, <<"m">>),
      \* a button whose name starts with "."
      Btn(PdfString_encode(<<".", "0">>), CHECKBOX_OFF_STATE, NoAP, Absent),
      \* two text fields of one name
      Annotation(<<"/Widget">>, PdfString_encode(<<"t">>), <<"/Tx">>,
                 PdfString_encode(<<"z">>), Absent, NoAP, <<"2">>, Absent),
      Annotation(<<"/Widget">>, PdfString_encode(<<"t">>), <<"/Tx">>, Absent, Absent, NoAP,
                 Absent, Absent),
      \* widgets without /T, without /FT, with an empty name; a link annotation
      Annotation(<<"/Widget">>, Absent, <<"/Tx">>, Absent, Absent, NoAP, Absent, Absent),
      Annotation(<<"/Widget">>, PdfString_encode(<<"u">>), Absent, Absent, Absent, NoAP,
                 Absent, Absent),
      Annotation(<<"/Widget">>, PdfString_encode(<<>>), <<"/Tx">>, Absent, Absent, NoAP,
                 Absent, Absent),
      Annotation(<<"/Link">>, PdfString_encode(<<"t">>), Absent, Absent, Absent, NoAP,
                 Absent, Absent) }

ScanDocuments == UNION {[1..n -> ScanAnnotations] : n \in 0..MaxWidgets}

InitDiscover ==
    /\ EngineIdle
    /\ AgentsIdle
    /\ WorkflowIdle
    /\ IngestionIdle
    /\ AppIdle
    /\ scanner \in {"analyze_pdf_fields.py", "update_field_names.py"}
    /\ scan_pdf \in {[readable |-> FALSE, annots |-> <<>>, kidsReversed |-> FALSE]}
                    \cup [readable : {TRUE}, annots : ScanDocuments, kidsReversed : BOOLEAN]
    /\ scan_pc = "scan_start"
    /\ scan_idx = 1
    /\ field_info = <<>>
    /\ button_fields = <<>>
    /\ radio_groups = <<>>
    /\ fields = <<>>
    /\ scan_log = {}
    /\ scan_result = [kind |-> "none", table |-> <<>>]

NextDiscover ==
    \/ ReportLoad
    \/ ReportAnnotation
    \/ ReportSave
    \/ CollectLoad
    \/ CollectButton
    \/ DetectGroups
    \/ AddNonButton
    \/ ReturnFields

SpecDiscover == InitDiscover /\ [][NextDiscover]_vars

(***************************************************************************)
(* Properties of the two analyze_pdf_fields                                *)
(***************************************************************************)
\* the scan has ended with its table saved or returned
ScanDone == scan_pc = "scan_done"

\* the field table the scan gave
Table == scan_result.table

\* a widget with a name the scan can take
ScannedWidget(i) ==
    /\ i \in 1..Len(scan_pdf.annots)
    /\ IsWidget(scan_pdf.annots[i])
    /\ widget_field_name(scan_pdf.annots[i]) # <<>>

IsButton(i) == ScannedWidget(i) /\ scan_pdf.annots[i].FT = <<"/Btn">>

\* the identifier the running scan derives for the widget at i
Derived(i) ==
    IF scanner = "analyze_pdf_fields.py" THEN get_field_name(scan_pdf, i)
    ELSE widget_field_name(scan_pdf.annots[i])

\* the table has an entry of the widget's own name that describes the widget at i
RegisteredAlone(i) ==
    LET name == widget_field_name(scan_pdf.annots[i])
    IN  /\ name \in DOMAIN Table
        /\ Table[name].name = name
        /\ Table[name].page = i
        /\ name \notin DOMAIN radio_groups

\* C14: when the scan is done, every Button widget without /Parent whose name no
\* other widget carries has its own entry in the field table, whatever prefix it
\* shares with other buttons: it is neither merged into a group nor dropped.
C14_PrefixSharersIndependent ==
    ScanDone =>
        \A i \in 1..Len(scan_pdf.annots) :
            (/\ IsButton(i)
             /\ scan_pdf.annots[i].Parent = Absent
             /\ \A j \in 1..Len(scan_pdf.annots) :
                    (j # i /\ ScannedWidget(j)) => Derived(j) # Derived(i))
            => RegisteredAlone(i)

\* a Button widget whose parent has a name and lists it among its /Kids
OptionOfNamedParent(i) ==
    /\ IsButton(i)
    /\ scan_pdf.annots[i].Parent # Absent
    /\ parent_dict(scan_pdf.annots[i].Parent).T # Absent
    /\ parent_dict(scan_pdf.annots[i].Parent).hasKids
    /\ ~index_in(kids_of(scan_pdf, scan_pdf.annots[i].Parent), i).raised

\* the parent's name followed by the letter of the widget's position in /Kids
OrdinalName(i) ==
    strip_parens(parent_dict(scan_pdf.annots[i].Parent).T)
    \o <<letter_suffix(index_in(kids_of(scan_pdf, scan_pdf.annots[i].Parent), i).idx)>>

\* C15: when analyze_pdf_fields.py has scanned the document, every Button widget
\* whose parent carries a name is recorded under that name followed by the letter
\* of its position in the parent's /Kids (0 gives a, 1 gives b), so the siblings
\* of one parent have entries of their own.
C15_OrdinalSuffix ==
    (ScanDone /\ scanner = "analyze_pdf_fields.py") =>
        \A i \in 1..Len(scan_pdf.annots) :
            OptionOfNamedParent(i) =>
                /\ OrdinalName(i) \in DOMAIN field_info
                /\ field_info[OrdinalName(i)].page = i

\* the scan logged a conflict about the name
ConflictFlagged(name) ==
    \E e \in scan_log : e.what = "conflict" /\ e.field = name

\* the last widget for which the scan derives the name
LastDeriving(name) ==
    CHOOSE i \in 1..Len(scan_pdf.annots) :
        /\ ScannedWidget(i) /\ Derived(i) = name
        /\ \A j \in 1..Len(scan_pdf.annots) :
               (ScannedWidget(j) /\ Derived(j) = name) => j <= i

\* C16: when the scan is done and two widgets derived the same identifier, the
\* scan has flagged a conflict about it and the entry kept under the identifier
\* is that of the widget discovered last.
C16_CollisionFlagged ==
    ScanDone =>
        \A i, j \in 1..Len(scan_pdf.annots) :
            (i < j /\ ScannedWidget(i) /\ ScannedWidget(j) /\ Derived(i) = Derived(j)) =>
                /\ ConflictFlagged(Derived(i))
                /\ Derived(i) \in DOMAIN Table
                /\ Table[Derived(i)].page = LastDeriving(Derived(i))

\* a widget without its identifier or without its field-kind key
Malformed(i) ==
    /\ i \in 1..Len(scan_pdf.annots)
    /\ IsWidget(scan_pdf.annots[i])
    /\ (scan_pdf.annots[i].T = Absent \/ scan_pdf.annots[i].FT = Absent)

\* C17: a scan of a readable document never raises; when it is done, no entry of
\* the table describes a malformed widget, each malformed widget was logged, and
\* every other named widget whose identifier is its alone has its entry.
C17_MalformedSkipped ==
    /\ scan_pdf.readable => scan_pc # "scan_raised"
    /\ ScanDone =>
           \A i \in 1..Len(scan_pdf.annots) :
               IF Malformed(i)
               THEN /\ \A n \in DOMAIN Table : Table[n].page # i
                    /\ \E e \in scan_log : e.level \in {"warning", "error"}
                                           /\ e.field = scan_pdf.annots[i].T
               ELSE (/\ ScannedWidget(i)
                     /\ scan_pdf.annots[i].Parent = Absent
                     /\ \A j \in 1..Len(scan_pdf.annots) :
                            (j # i /\ ScannedWidget(j)) =>
                                base_name_of(Derived(j)) # base_name_of(Derived(i)))
                    => \E n \in DOMAIN Table : Table[n].page = i

(***************************************************************************)
(* agents/agent_07_pdf_filling.py: PDFFillingAgent.run                     *)
(***************************************************************************)
\* the invocations of PDFFillingAgent.run, each in a thread or process of its own
Runs == 1..MaxRuns

NoPath == [dir |-> "", stamp |-> 0, set |-> FALSE]

\* lines 52-54: os.path.join(output_dir, f"sar_report_filled_{timestamp}.pdf"),
\* the timestamp being datetime.now() formatted "%Y%m%d_%H%M%S"
make_output_path(dir, now) == [dir |-> dir, stamp |-> now, set |-> TRUE]

\* the clock goes on
Tick ==
    /\ clock < MaxClock
    /\ clock' = clock + 1
    /\ UNCHANGED <<template_exists, run_pc, output_dir, output_path, files, run_result>>
    /\ UNCHANGED outsideAgents

\* lines 43-46: without the template the invocation returns None
CheckTemplate(r) ==
    /\ run_pc[r] = "check_template"
    /\ IF template_exists
       THEN /\ run_pc' = [run_pc EXCEPT ![r] = "make_path"]
            /\ run_result' = run_result
       ELSE /\ run_pc' = [run_pc EXCEPT ![r] = "returned"]
            /\ run_result' = [run_result EXCEPT ![r] = NoPath]
    /\ UNCHANGED <<clock, template_exists, output_dir, output_path, files>>
    /\ UNCHANGED outsideAgents

\* lines 49-54: the output directory is made and the timestamped path computed
MakeOutputPath(r) ==
    /\ run_pc[r] = "make_path"
    /\ output_path' = [output_path EXCEPT ![r] = make_output_path(output_dir[r], clock)]
    /\ run_pc' = [run_pc EXCEPT ![r] = "fill"]
    /\ UNCHANGED <<clock, template_exists, output_dir, files, run_result>>
    /\ UNCHANGED outsideAgents

\* lines 61-65: fill_sar_pdf writes the file at output_path
FillWrites(r) ==
    /\ run_pc[r] = "fill"
    /\ files' = put(files, output_path[r], r)
    /\ run_pc' = [run_pc EXCEPT ![r] = "check_output"]
    /\ UNCHANGED <<clock, template_exists, output_dir, output_path, run_result>>
    /\ UNCHANGED outsideAgents

\* lines 61-65, 75-85: fill_sar_pdf raises, the handlers log and None is returned
FillRaises(r) ==
    /\ run_pc[r] = "fill"
    /\ run_result' = [run_result EXCEPT ![r] = NoPath]
    /\ run_pc' = [run_pc EXCEPT ![r] = "returned"]
    /\ UNCHANGED <<clock, template_exists, output_dir, output_path, files>>
    /\ UNCHANGED outsideAgents

\* lines 67-73: the path is returned if a file is there
CheckOutput(r) ==
    /\ run_pc[r] = "check_output"
    /\ run_result' = [run_result EXCEPT ![r] = IF output_path[r] \in DOMAIN files
                                               THEN output_path[r] ELSE NoPath]
    /\ run_pc' = [run_pc EXCEPT ![r] = "returned"]
    /\ UNCHANGED <<clock, template_exists, output_dir, output_path, files>>
    /\ UNCHANGED outsideAgents

\* the directories callers pass as output_dir; "output" is DEFAULT_OUTPUT_DIR
OutputDirs == {"output", "other"}

InitAgents ==
    /\ EngineIdle
    /\ DiscoveryIdle
    /\ WorkflowIdle
    /\ IngestionIdle
    /\ AppIdle
    /\ clock = 0
    /\ template_exists \in BOOLEAN
    /\ run_pc = [r \in Runs |-> "check_template"]
    /\ output_dir \in [Runs -> OutputDirs]
    /\ output_path = [r \in Runs |-> NoPath]
    /\ files = <<>>
    /\ run_result = [r \in Runs |-> NoPath]

NextAgents ==
    \/ Tick
    \/ \E r \in Runs : CheckTemplate(r)
    \/ \E r \in Runs : MakeOutputPath(r)
    \/ \E r \in Runs : FillWrites(r)
    \/ \E r \in Runs : FillRaises(r)
    \/ \E r \in Runs : CheckOutput(r)

SpecAgents == InitAgents /\ [][NextAgents]_vars

\* C19: two invocations of PDFFillingAgent.run never have the same output path,
\* the file at the path of one is never written by another, and the path an
\* invocation returns holds the file it wrote.
C19_DistinctOutputPaths ==
    /\ \A a, b \in Runs :
           (a # b /\ output_path[a].set /\ output_path[b].set) =>
               output_path[a] # output_path[b]
    /\ \A r \in Runs :
           (run_pc[r] = "returned" /\ run_result[r].set) => files[run_result[r]] = r

(***************************************************************************)
(* workflows/sar_workflow_manager.py: SARWorkflowManager.run               *)
(*                                                                         *)
(* A value an agent returns is [kind, id, status]: id is the number of the *)
(* call that made it, so two reports are never the same value; status is   *)
(* what a verification result carries as verification_status.              *)
(***************************************************************************)
\* the argument taken as it comes
clamp_iterations_absent(n) == n

\* line 28: self.max_iterations = max(1, max_iterations)
clamp_iterations(n) == IF n >= 1 THEN n ELSE 1

\* SARGenerationAgent.run returns what json.loads made of the reply: a dictionary
\* with fields, an empty dictionary, null, or the reply as text
ReportKinds == {"report", "empty_dict", "none", "text"}

\* what a verification result may carry: the three statuses, a status of another
\* spelling, no verification_status key, a status that is no string, and a
\* verification_result that is no dictionary
StatusReplies == {"approved", "needs_revision", "rejected", "APPROVED", "<missing>",
                  "<not_str>", "<bad_shape>"}

\* line 86: not current_sar_report or not isinstance(current_sar_report, dict)
is_invalid_report(report) == report.kind # "report"

\* line 96: not current_sar_report
is_missing_report(report) == report.kind \in {"none", "empty_dict"}

\* lines 106-108: the status read from the verification result; a result of the
\* wrong shape and a status without .upper() raise AttributeError
read_status(verification) ==
    CASE verification.status = "<bad_shape>" -> [raised |-> TRUE, status |-> "unread"]
      [] verification.status = "<missing>" -> [raised |-> FALSE, status |-> "error"]
      [] verification.status = "<not_str>" -> [raised |-> TRUE, status |-> "<not_str>"]
      [] OTHER -> [raised |-> FALSE, status |-> verification.status]

\* a validation that lets every status through
validate_status_trusting(status) == [raised |-> FALSE, status |-> status]

\* lines 111-115: a status other than the three known ones becomes "error" and
\* raises ValueError
validate_status(status) ==
    IF status \in {"approved", "needs_revision", "rejected"}
    THEN [raised |-> FALSE, status |-> status]
    ELSE [raised |-> TRUE, status |-> "error"]

\* a generation that is never told what the verification said
verification_feedback_withheld(status, last_result) == None

\* line 78: the previous verification is passed only when a revision is needed
verification_feedback(status, last_result) ==
    IF status = "needs_revision" THEN last_result ELSE None

\* line 68: iteration_data = {"iteration": iteration_num}
new_iteration_data(iteration_num) ==
    [iteration |-> iteration_num, sar_report |-> Unset, verification_result |-> Unset,
     status |-> "<unset>", error |-> FALSE]

\* lines 120-121: what the handler writes into iteration_data
failed(it_data) == [it_data EXCEPT !.status = "error", !.error = TRUE]

\* a call of one of the agents
Call(agent, iteration_num, feedback, report, result) ==
    [agent |-> agent, iteration |-> iteration_num, verification_feedback |-> feedback,
     sar_report |-> report, result |-> result]

Raised == [kind |-> "raised", id |-> 0, status |-> ""]

\* lines 49-65: the locals, the check of the input, the entry into the loop
WfStart ==
    /\ wf_pc = "wf_start"
    /\ IF analysis_results # "valid"
       THEN /\ final_result' = [final_sar_report |-> None, final_verification |-> None,
                                iteration_results |-> <<>>, final_status |-> "error",
                                error_message |-> "invalid_input"]
            /\ wf_pc' = "wf_returned"
       ELSE /\ final_result' = final_result
            /\ wf_pc' = IF 0 < max_iterations THEN "wf_generate" ELSE "wf_compile"
    /\ iteration' = 0
    /\ UNCHANGED <<analysis_results, max_iterations, current_status, current_sar_report,
                   last_verification_result, iteration_data, iteration_results,
                   error_message, calls>>
    /\ UNCHANGED outsideWorkflow

\* a handler that keeps the message of the exception to itself
WfFails_without_message(it_data) ==
    /\ error_message' = error_message
    /\ iteration_results' = Append(iteration_results, failed(it_data))
    /\ iteration_data' = failed(it_data)
    /\ current_status' = "error"
    /\ wf_pc' = "wf_compile"

\* lines 117-124: the handler of an iteration that raised
WfFails(it_data) ==
    /\ error_message' = "iteration_error"
    /\ iteration_results' = Append(iteration_results, failed(it_data))
    /\ iteration_data' = failed(it_data)
    /\ current_status' = "error"
    /\ wf_pc' = "wf_compile"

\* lines 66-98: the start of an iteration, up to the verification call
GenerateSar ==
    /\ wf_pc = "wf_generate"
    /\ LET iteration_num == iteration + 1
           it_data == new_iteration_data(iteration_num)
           feedback == verification_feedback(current_status, last_verification_result)
       IN  IF current_status \in {"needs_generation", "needs_revision"}
           THEN \/ \* self.sar_agent.run raises
                   /\ calls' = Append(calls, Call("sar", iteration_num, feedback, Unset, Raised))
                   /\ current_sar_report' = current_sar_report
                   /\ WfFails(it_data)
                \/ \E kind \in ReportKinds :
                       LET report == [kind |-> kind, id |-> Len(calls) + 1, status |-> ""]
                           with_report == [it_data EXCEPT !.sar_report = report]
                       IN  /\ calls' = Append(calls, Call("sar", iteration_num, feedback,
                                                          Unset, report))
                           /\ current_sar_report' = report
                           /\ IF is_invalid_report(report)
                              THEN WfFails(with_report)
                              ELSE /\ iteration_data' = with_report
                                   /\ wf_pc' = "wf_verify"
                                   /\ UNCHANGED <<current_status, iteration_results,
                                                  error_message>>
           ELSE /\ calls' = calls
                /\ current_sar_report' = current_sar_report
                /\ IF is_missing_report(current_sar_report)
                   THEN WfFails([it_data EXCEPT !.sar_report = current_sar_report])
                   ELSE /\ iteration_data' = [it_data EXCEPT !.sar_report = current_sar_report]
                        /\ wf_pc' = "wf_verify"
                        /\ UNCHANGED <<current_status, iteration_results, error_message>>
    /\ UNCHANGED <<analysis_results, max_iterations, iteration, last_verification_result,
                   final_result>>
    /\ UNCHANGED outsideWorkflow

\* an end of iteration that goes on after a rejection
WfStores_on_approval_only(it_data, status) ==
    /\ iteration_results' = Append(iteration_results, it_data)
    /\ iteration_data' = it_data
    /\ current_status' = status
    /\ error_message' = error_message
    /\ IF status = "approved"
       THEN /\ wf_pc' = "wf_compile"
            /\ iteration' = iteration
       ELSE /\ iteration' = iteration + 1
            /\ wf_pc' = IF iteration + 1 < max_iterations THEN "wf_generate"
                        ELSE "wf_compile"

\* lines 126-138: the iteration is stored; the loop ends on approved, on rejected,
\* and after the last iteration
WfStores(it_data, status) ==
    /\ iteration_results' = Append(iteration_results, it_data)
    /\ iteration_data' = it_data
    /\ current_status' = status
    /\ error_message' = error_message
    /\ IF status \in {"approved", "rejected"}
       THEN /\ wf_pc' = "wf_compile"
            /\ iteration' = iteration
       ELSE /\ iteration' = iteration + 1
            /\ wf_pc' = IF iteration + 1 < max_iterations THEN "wf_generate"
                        ELSE "wf_compile"

\* lines 100-138: the verification call and the rest of the iteration
VerifySar ==
    /\ wf_pc = "wf_verify"
    /\ LET iteration_num == iteration + 1
       IN  \/ \* self.verification_agent.run raises
              /\ calls' = Append(calls, Call("verification", iteration_num, Unset,
                                             current_sar_report, Raised))
              /\ last_verification_result' = last_verification_result
              /\ iteration' = iteration
              /\ WfFails(iteration_data)
           \/ \E reply \in StatusReplies :
                  LET verification == [kind |-> "verification", id |-> Len(calls) + 1,
                                       status |-> reply]
                      verified == [iteration_data EXCEPT !.verification_result = verification]
                      read == read_status(verification)
                      valid == validate_status(read.status)
                  IN  /\ calls' = Append(calls, Call("verification", iteration_num, Unset,
                                                     current_sar_report, verification))
                      /\ last_verification_result' = verification
                      /\ IF read.raised
                         THEN /\ iteration' = iteration
                              /\ WfFails(IF read.status = "unread" THEN verified
                                         ELSE [verified EXCEPT !.status = read.status])
                         ELSE IF valid.raised
                         THEN /\ iteration' = iteration
                              /\ WfFails([verified EXCEPT !.status = valid.status])
                         ELSE WfStores([verified EXCEPT !.status = valid.status],
                                       valid.status)
    /\ UNCHANGED <<analysis_results, max_iterations, current_sar_report, final_result>>
    /\ UNCHANGED outsideWorkflow

\* lines 140-149: the result is compiled and returned
CompileResult ==
    /\ wf_pc = "wf_compile"
    /\ final_result' = [final_sar_report |-> current_sar_report,
                        final_verification |-> last_verification_result,
                        iteration_results |-> iteration_results,
                        final_status |-> current_status,
                        error_message |-> error_message]
    /\ wf_pc' = "wf_returned"
    /\ UNCHANGED <<analysis_results, max_iterations, iteration, current_status,
                   current_sar_report, last_verification_result, iteration_data,
                   iteration_results, error_message, calls>>
    /\ UNCHANGED outsideWorkflow

InitWorkflow ==
    /\ EngineIdle
    /\ DiscoveryIdle
    /\ AgentsIdle
    /\ IngestionIdle
    /\ AppIdle
    /\ wf_pc = "wf_start"
    /\ analysis_results \in {"valid", "empty", "not_dict"}
    /\ max_iterations \in {clamp_iterations(n) : n \in 0..MaxIterations}
    /\ iteration = 0
    /\ current_status = "needs_generation"
    /\ current_sar_report = None
    /\ last_verification_result = None
    /\ iteration_data = <<>>
    /\ iteration_results = <<>>
    /\ error_message = "none"
    /\ final_result = <<>>
    /\ calls = <<>>

NextWorkflow ==
    \/ WfStart
    \/ GenerateSar
    \/ VerifySar
    \/ CompileResult

SpecWorkflow == InitWorkflow /\ [][NextWorkflow]_vars

\* the statuses run documents as final_status
FinalStatuses == {"approved", "needs_revision", "rejected", "error"}

\* C20: whatever the input and whatever the agents return or raise, the result
\* run returns has a final_status among approved, needs_revision, rejected and
\* error: never needs_generation, never a status the verification agent made up.
C20_FinalStatusKnown ==
    /\ wf_pc = "wf_returned" => final_result.final_status \in FinalStatuses
    /\ wf_pc = "wf_compile" => current_status \in FinalStatuses

\* C20's case: the verification agent answered with a status of its own and run
\* returned error
C20_Witness ==
    /\ wf_pc = "wf_returned"
    /\ final_result.final_status = "error"
    /\ final_result.final_verification.status = "APPROVED"
    /\ Len(final_result.iteration_results) = 2

Returned == wf_pc = "wf_returned"

\* C21: whenever run ends with final_status error, in whatever iteration, the
\* returned final_sar_report and final_verification are both None.
C21_ErrorReturnsNoReport ==
    (Returned /\ final_result.final_status = "error") =>
        /\ final_result.final_sar_report = None
        /\ final_result.final_verification = None

(***************************************************************************)
(* agents/agent_01_data_ingestion.py: DataIngestionAgent                   *)
(*                                                                         *)
(* A JSON scalar is [type, text]: the string "1" and the number 1 are two  *)
(* values with one text.  A timestamp is [hour, tz]: the hour it names and *)
(* the way it names its zone ("Z", an offset, or nothing); the other tz    *)
(* values are texts that are no date, values that are no string, and the   *)
(* absent key.                                                             *)
(***************************************************************************)
Missing == [type |-> "absent", text |-> ""]
String(text) == [type |-> "str", text |-> text]
Number(text) == [type |-> "int", text |-> text]
FloatOf(text) == [type |-> "float", text |-> text]

\* Python's truth value of a scalar or of a missing key
truthy(value) == value.type # "absent" /\ value.text # "" /\ value.text # "0"

\* str(value)
str(value) == value.text

NoTimestamp == [hour |-> 0, tz |-> "absent"]
Stamp(hour, tz) == [hour |-> hour, tz |-> tz]

\* the zones datetime.fromisoformat reads, and the hours they are ahead of UTC
utc_offset(tz) == IF tz = "+01:00" THEN 1 ELSE 0
ParsedZones == {"Z", "", "+01:00"}

\* lines 26-48: _standardize_timestamp; None for what is empty, is no date or is
\* no string
standardize_timestamp(timestamp) ==
    IF timestamp.tz \in ParsedZones
    THEN Stamp(timestamp.hour - utc_offset(timestamp.tz), "Z")
    ELSE NoTimestamp

\* what _standardize_timestamp logs: line 42 after ValueError, line 47 otherwise
standardize_log(timestamp) ==
    CASE timestamp.tz = "bad" -> {"warning_unparsed"}
      [] timestamp.tz = "not_str" -> {"error_timestamp"}
      [] OTHER -> {}

\* lines 23-24
core_fields == {"transaction_id", "timestamp", "amount", "currency", "sender", "receiver"}
optional_core_fields == {"transaction_type", "source_system"}

\* lines 76-86: where the loop puts the value of a key
placed(key) ==
    IF key \in core_fields THEN "as_is"
    ELSE IF key \in optional_core_fields THEN "as_is"
    ELSE IF key = "timestamp" THEN "standardized"
    ELSE "metadata"

\* a deduplication key built on the timestamp as given
transaction_key_raw(tx_id, raw_timestamp, standardized_ts) == <<str(tx_id), raw_timestamp>>

\* line 66: transaction_key = (str(tx_id), standardized_ts)
transaction_key(tx_id, raw_timestamp, standardized_ts) == <<str(tx_id), standardized_ts>>

\* lines 100-104: float(standardized_tx['amount']), the original kept when it fails
to_float(amount) ==
    IF amount.type \in {"int", "float"} \/ (amount.type = "str" /\ amount.text # "n/a")
    THEN FloatOf(amount.text)
    ELSE amount

\* the keys of a transaction
keys_of(transaction) ==
    {key \in {"transaction_id", "timestamp", "amount", "memo"} :
        CASE key = "timestamp" -> transaction.timestamp.tz # "absent"
          [] OTHER -> transaction[key].type # "absent"}

\* lines 72-106: the standardized transaction object
standardized_tx(transaction, standardized_ts) ==
    [transaction_id |-> transaction.transaction_id,
     timestamp |-> IF placed("timestamp") = "standardized" THEN standardized_ts
                   ELSE transaction.timestamp,
     amount |-> to_float(transaction.amount),
     metadata |-> IF placed("memo") = "metadata" THEN transaction.memo ELSE Missing]

\* lines 50-106: _process_transaction: what it returns (kept, with the object),
\* the key it adds and what it logs
process_transaction(transaction, seen) ==
    LET tx_id == transaction.transaction_id
        raw_timestamp == transaction.timestamp
        standardized_ts == standardize_timestamp(raw_timestamp)
        key == transaction_key(tx_id, raw_timestamp, standardized_ts)
        skipped(logged) == [kept |-> FALSE, tx |-> <<>>, seen |-> seen, logged |-> logged]
    IN  IF ~truthy(tx_id) \/ raw_timestamp.tz = "absent"
        THEN skipped({"warning_missing"})
        ELSE IF standardized_ts = NoTimestamp
        THEN skipped(standardize_log(raw_timestamp) \cup {"warning_invalid"})
        ELSE IF key \in seen
        THEN skipped({"info_duplicate"})
        ELSE [kept |-> TRUE,
              tx |-> standardized_tx(transaction, standardized_ts),
              seen |-> seen \cup {key},
              logged |-> (IF core_fields \subseteq keys_of(transaction) THEN {}
                          ELSE {"warning_core"})
                         \cup (IF to_float(transaction.amount).type = "str"
                               THEN {"warning_amount"} ELSE {})]

\* lines 121-131: the state is reset and the argument is checked
IngestStart ==
    /\ ing_pc = "ing_start"
    /\ processed_transactions' = <<>>
    /\ seen_transactions' = {}
    /\ ing_idx' = 1
    /\ IF raw_transaction_data.shape # "dict"
       THEN /\ ing_log' = ing_log \cup {<<"error_input", 0>>}
            /\ ing_result' = <<>>
            /\ ing_pc' = "ing_returned"
       ELSE /\ ing_log' = ing_log
            /\ ing_result' = ing_result
            /\ ing_pc' = "ing_loop"
    /\ UNCHANGED raw_transaction_data
    /\ UNCHANGED outsideIngestion

\* lines 133-140: one item of input_transactions
IngestTransaction ==
    /\ ing_pc = "ing_loop"
    /\ ing_idx <= Len(raw_transaction_data.transactions)
    /\ LET transaction == raw_transaction_data.transactions[ing_idx]
           processed == process_transaction(transaction, seen_transactions)
       IN  IF ~transaction.is_dict
           THEN /\ ing_log' = ing_log \cup {<<"warning_not_dict", ing_idx>>}
                /\ UNCHANGED <<seen_transactions, processed_transactions>>
           ELSE /\ ing_log' = ing_log \cup {<<l, ing_idx>> : l \in processed.logged}
                /\ seen_transactions' = processed.seen
                /\ processed_transactions' =
                       IF processed.kept THEN Append(processed_transactions, processed.tx)
                       ELSE processed_transactions
    /\ ing_idx' = ing_idx + 1
    /\ UNCHANGED <<ing_pc, raw_transaction_data, ing_result>>
    /\ UNCHANGED outsideIngestion

\* lines 142-143
IngestReturn ==
    /\ ing_pc = "ing_loop"
    /\ ing_idx > Len(raw_transaction_data.transactions)
    /\ ing_result' = processed_transactions
    /\ ing_log' = ing_log \cup {<<"info_complete", 0>>}
    /\ ing_pc' = "ing_returned"
    /\ UNCHANGED <<raw_transaction_data, ing_idx, seen_transactions, processed_transactions>>
    /\ UNCHANGED outsideIngestion

Tx(id, timestamp, amount, memo) ==
    [is_dict |-> TRUE, transaction_id |-> id, timestamp |-> timestamp, amount |-> amount,
     memo |-> memo]

\* the items of a "transactions" list: transactions that name one instant in three
\* ways and under the identifier "1" and 1, a later one, ones without identifier
\* or with a timestamp that cannot be used, and an item that is no dictionary
InputItems ==
    { Tx(String("1"), Stamp(1, "Z"), String("12.5"), Missing),
      Tx(Number("1"), Stamp(2, "+01:00"), Number("3"), String("wire")),
      Tx(String("1"), Stamp(1, ""), String("n/a"), Missing),
      Tx(String("1"), Stamp(2, "Z"), Missing, Missing),
      Tx(Number("1"), Stamp(1, "Z"), Missing, Missing),
      Tx(String("1"), Stamp(1, "bad"), Missing, Missing),
      Tx(Number("1"), Stamp(1, "not_str"), Missing, Missing),
      Tx(Missing, Stamp(1, "Z"), Missing, Missing),
      Tx(String("1"), NoTimestamp, Missing, Missing),
      [is_dict |-> FALSE, transaction_id |-> Missing, timestamp |-> NoTimestamp,
       amount |-> Missing, memo |-> Missing] }

InputLists == UNION {[1..n -> InputItems] : n \in 0..MaxTransactions}

InitIngest ==
    /\ EngineIdle
    /\ DiscoveryIdle
    /\ AgentsIdle
    /\ WorkflowIdle
    /\ AppIdle
    /\ ing_pc = "ing_start"
    /\ \/ /\ raw_transaction_data \in {[shape |-> sh, transactions |-> <<>>] :
                                          sh \in {"not_dict", "no_key", "not_list"}}
       \/ /\ raw_transaction_data \in {[shape |-> "dict", transactions |-> l] :
                                          l \in InputLists}
    /\ ing_idx = 1
    /\ seen_transactions \in {{}, {<<"1", Stamp(1, "Z")>>}}
    /\ processed_transactions = <<>>
    /\ ing_log = {}
    /\ ing_result = <<>>

NextIngest ==
    \/ IngestStart
    \/ IngestTransaction
    \/ IngestReturn

SpecIngest == InitIngest /\ [][NextIngest]_vars

(***************************************************************************)
(* Properties of DataIngestionAgent.run                                    *)
(***************************************************************************)
IngestReturned == ing_pc = "ing_returned" /\ raw_transaction_data.shape = "dict"

Items == raw_transaction_data.transactions

\* an item _process_transaction can key: a dictionary with an identifier and a
\* timestamp that can be standardized
Usable(i) ==
    /\ Items[i].is_dict
    /\ truthy(Items[i].transaction_id)
    /\ standardize_timestamp(Items[i].timestamp) # NoTimestamp

\* two items name the same identifier and the same instant
SameGiven(i, j) ==
    /\ Items[i].transaction_id = Items[j].transaction_id
    /\ standardize_timestamp(Items[i].timestamp) = standardize_timestamp(Items[j].timestamp)

\* the same, the identifiers compared by their text
SameText(i, j) ==
    /\ str(Items[i].transaction_id) = str(Items[j].transaction_id)
    /\ standardize_timestamp(Items[i].timestamp) = standardize_timestamp(Items[j].timestamp)

\* the usable items that have no earlier duplicate
Firsts(Same(_, _)) ==
    {i \in DOMAIN Items : Usable(i) /\ \A j \in 1..(i - 1) : ~(Usable(j) /\ Same(j, i))}

\* a set of indices in increasing order
Ascending(S) ==
    CHOOSE q \in [1..Cardinality(S) -> S] : \A a, b \in DOMAIN q : a < b => q[a] < q[b]

\* the identifier and the instant of a transaction
pair_of(transaction) ==
    <<transaction.transaction_id, standardize_timestamp(transaction.timestamp)>>

\* the pairs of the output, and the pairs of the items that are first of their kind
PairsKept == [k \in DOMAIN ing_result |-> pair_of(ing_result[k])]
PairsOfFirsts(Same(_, _)) ==
    LET q == Ascending(Firsts(Same)) IN [k \in DOMAIN q |-> pair_of(Items[q[k]])]

\* C22 as stated: the output holds no two transactions with the same
\* (transaction_id, standardized timestamp); of the items with one identifier and
\* one instant exactly the first is kept, in input order.
C22_FirstOfEachPairKept ==
    IngestReturned =>
        /\ \A a, b \in DOMAIN ing_result : a # b => PairsKept[a] # PairsKept[b]
        /\ PairsKept = PairsOfFirsts(SameGiven)

\* C22, amended: identifiers are compared by their string form, so that 1 and
\* "1" are one identifier. The output holds no two transactions with the same
\* (str(transaction_id), standardized timestamp); of the usable items with one
\* such pair exactly the first is kept, and the kept ones are in input order.
C22_FirstOfEachKeyKept ==
    IngestReturned =>
        /\ \A a, b \in DOMAIN ing_result :
               a # b => <<str(PairsKept[a][1]), PairsKept[a][2]>> #
                        <<str(PairsKept[b][1]), PairsKept[b][2]>>
        /\ PairsKept = PairsOfFirsts(SameText)

\* C22's case: three usable items, the second a duplicate of the first written
\* with another zone, the third a later transaction; two are returned
C22_Witness ==
    /\ IngestReturned
    /\ Len(Items) = 3
    /\ \A i \in 1..3 : Usable(i)
    /\ SameText(1, 2) /\ Items[1].timestamp # Items[2].timestamp
    /\ ~SameText(1, 3)
    /\ Len(ing_result) = 2

\* C23: every transaction of the output carries as its timestamp the standardized
\* UTC value _standardize_timestamp computed for it, the value of its
\* deduplication key, and not the timestamp as given.
C23_TimestampStandardized ==
    IngestReturned =>
        \A k \in DOMAIN ing_result :
            ing_result[k].timestamp = standardize_timestamp(ing_result[k].timestamp)

(***************************************************************************)
(* Further properties of fill_checkbox                                     *)
(***************************************************************************)
\* C24: after fill_checkbox has been applied with a boolean to a Button widget,
\* with or without an appearance dictionary and whatever its state was, the
\* widget's /V and its /AS name the same state.
C24_ValueAndAppearanceAgree ==
    \A i \in 1..Len(doc) :
        (Visited(i) /\ FilledCheckbox(doc0[i])) => doc[i].V = doc[i].AS

(***************************************************************************)
(* update_pdf_field_names followed by fill_sar_pdf: the template is        *)
(* renamed, and the file written is the template of the fill               *)
(***************************************************************************)
\* fill_sar_pdf is called with the file update_pdf_field_names wrote
FillRenamed ==
    /\ pc = "rename_done"
    /\ doc0' = output.annots
    /\ doc' = output.annots
    /\ output' = NoOutput
    /\ pc' = "fill_start"
    /\ UNCHANGED <<template, hasAcroForm, decodeAcceptsCodec, native, data,
                   field_mappings, idx, processed_fields, unprocessed_data,
                   unmapped_fields, log, needAppearances, passes>>
    /\ UNCHANGED outsideEngine

\* the widgets of a native template: a text field, two options of a grouped
\* control, an independent checkbox
ComposeAnnotations ==
    { Annotation(<<"/Widget">>, PdfString_encode(NameA), <<"/Tx">>, Absent, Absent, NoAP,
                 <<"2">>, Absent),
      Annotation(<<"/Widget">>, PdfString_encode(NameA \o <<".", "0">>), <<"/Btn">>,
                 CHECKBOX_OFF_STATE, CHECKBOX_OFF_STATE, BothStates, Absent, NameA),
      Annotation(<<"/Widget">>, PdfString_encode(NameA \o <<".", "1">>), <<"/Btn">>,
                 CHECKBOX_OFF_STATE, CHECKBOX_OFF_STATE, BothStates, Absent, NameA),
      Annotation(<<"/Widget">>, PdfString_encode(NameB), <<"/Btn">>, CHECKBOX_OFF_STATE,
                 CHECKBOX_OFF_STATE, BothStates, Absent, Absent) }

ComposeDocuments == UNION {[1..n -> ComposeAnnotations] : n \in 0..MaxWidgets}

ComposeMappings == UNION {[K -> {NameP, NameQ}] : K \in SUBSET {NameA, NameB}}

ComposeRequests ==
    UNION {{f \in [K -> {BoolVal(TRUE), StrVal(<<"x">>)}] :
                \A k \in K : k = NameQ => f[k] = BoolVal(TRUE)} :
           K \in SUBSET {NameP, NameQ}}

InitCompose ==
    /\ template = "ok"
    /\ doc0 \in ComposeDocuments
    /\ field_mappings \in ComposeMappings
    /\ data \in ComposeRequests
    /\ hasAcroForm = TRUE
    /\ decodeAcceptsCodec \in BOOLEAN
    /\ doc = doc0
    /\ native = doc0
    /\ pc = "rename_start"
    /\ idx = 1
    /\ processed_fields = {}
    /\ unprocessed_data = {}
    /\ unmapped_fields = {}
    /\ log = {}
    /\ needAppearances = FALSE
    /\ output = NoOutput
    /\ passes = 0
    /\ DiscoveryIdle
    /\ AgentsIdle
    /\ WorkflowIdle
    /\ IngestionIdle
    /\ AppIdle

NextCompose ==
    \/ RenameStart
    \/ RenameAnnotation
    \/ RenameWrite
    \/ FillRenamed
    \/ LoadTemplate
    \/ ProcessAnnotation
    \/ ReportUnprocessed
    \/ MarkNeedAppearances
    \/ WriteOutput

SpecCompose == InitCompose /\ [][NextCompose]_vars

\* widget i of the native template was renamed by a mapping entry
RenamedByMapping(i) ==
    /\ IsWidget(native[i])
    /\ widget_field_name(native[i]) # <<>>
    /\ base_name_matches(widget_field_name(native[i]))
    /\ base_name_of(widget_field_name(native[i])) \in DOMAIN field_mappings

\* the descriptive name the mapping gives to widget i
DescriptiveName(i) == field_mappings[base_name_of(widget_field_name(native[i]))]

\* a value of the type the field takes
RightType(annotation, value) ==
    \/ annotation.FT = <<"/Btn">> /\ value.t = "bool"
    \/ annotation.FT = <<"/Tx">> /\ value.t = "str"

\* the /V fill_sar_pdf gives to a field of that type for that value
FilledValue(annotation, value) ==
    IF annotation.FT = <<"/Btn">> THEN fill_checkbox(annotation, value).ann.V
    ELSE fill_text(annotation, value, read_max_len(annotation).val).ann.V

\* C25: rename and fill compose. For every widget update_pdf_field_names renamed
\* with a mapping entry native -> d, with or without a preserved option suffix,
\* a later fill_sar_pdf whose request holds d with a value of the right type
\* fills that widget, and d is not reported as an unused key.
C25_RenameThenFill ==
    pc = "fill_done" =>
        \A i \in 1..Len(native) :
            (/\ RenamedByMapping(i)
             /\ DescriptiveName(i) \in DOMAIN data
             /\ RightType(native[i], data[DescriptiveName(i)])) =>
                /\ doc[i].V = FilledValue(native[i], data[DescriptiveName(i)])
                /\ DescriptiveName(i) \notin unprocessed_data

(***************************************************************************)
(* Further properties of SARWorkflowManager.run                            *)
(***************************************************************************)
\* the statements of run are executed one after the other, and a call of an
\* agent returns or raises
SpecWorkflowFair == SpecWorkflow /\ WF_vars(NextWorkflow)

\* the iterations run has started: each one begins with a call of the SAR agent
StartedIterations == {calls[k].iteration : k \in {j \in DOMAIN calls : calls[j].agent = "sar"}}

\* iteration_results is numbered 1, 2, ...
NumberedFromOne == \A k \in DOMAIN iteration_results : iteration_results[k].iteration = k

IterationsBounded ==
    /\ max_iterations >= 1
    /\ Cardinality(StartedIterations) <= max_iterations
    /\ NumberedFromOne
    /\ Len(iteration_results) <= Cardinality(StartedIterations)
    /\ wf_pc \in {"wf_compile", "wf_returned"} =>
           StartedIterations = 1..Len(iteration_results)
    /\ Returned => /\ final_result.iteration_results = iteration_results
                   /\ \A k \in DOMAIN iteration_results :
                          iteration_results[k].error => k = Len(iteration_results)

\* C26: run always terminates, after at most max_iterations iterations, where
\* max_iterations is at least 1; iteration_results holds exactly one entry for
\* each iteration that was started, numbered from 1 without gap, the iteration
\* in which an error occurred included.
C26_TerminatesWithinBound == []IterationsBounded /\ <>Returned

\* C26's case: the run used all its iterations and the last one ended in an error
C26_Witness ==
    /\ Returned
    /\ max_iterations = MaxIterations
    /\ Len(final_result.iteration_results) = max_iterations
    /\ final_result.iteration_results[max_iterations].error
    /\ final_result.iteration_results[max_iterations].iteration = max_iterations

\* the calls of the verification agent that returned approved or rejected
Verdicts ==
    {k \in DOMAIN calls : /\ calls[k].agent = "verification"
                          /\ calls[k].result.status \in {"approved", "rejected"}}

\* C27: once a verification has returned approved or rejected, run calls neither
\* agent again: the loop ends in that iteration, that status is the final_status
\* and final_sar_report is the very report this verification examined.
C27_VerdictEndsLoop ==
    \A k \in Verdicts :
        /\ k = Len(calls)
        /\ wf_pc \in {"wf_compile", "wf_returned"}
        /\ current_status = calls[k].result.status
        /\ Len(iteration_results) = calls[k].iteration
        /\ Returned =>
               /\ final_result.final_status = calls[k].result.status
               /\ final_result.final_sar_report = calls[k].sar_report
               /\ final_result.final_verification = calls[k].result

\* C27's case: a report was sent back once, its revision was rejected, and run
\* returned rejected with the revised report
C27_Witness ==
    /\ Returned
    /\ Len(calls) = 4
    /\ calls[2].result.status = "needs_revision"
    /\ calls[4].result.status = "rejected"
    /\ max_iterations > 2
    /\ final_result.final_status = "rejected"
    /\ final_result.final_sar_report = calls[3].result

\* the calls come in pairs: call 2n - 1 is the generation of iteration n and
\* call 2n its verification
IsGeneration(k) == calls[k].agent = "sar" /\ calls[k].iteration = (k + 1) \div 2
IsVerification(k) == calls[k].agent = "verification" /\ calls[k].iteration = k \div 2

\* what the generation call k is given as verification_feedback
FeedbackInOrder(k) ==
    calls[k].verification_feedback = IF k = 1 THEN None ELSE calls[k - 1].result

\* the verification call k examines the report generated just before
VerifiesLastReport(k) == k > 1 /\ calls[k].sar_report = calls[k - 1].result

Alternating ==
    \A k \in DOMAIN calls :
        IF k % 2 = 1 THEN IsGeneration(k) /\ FeedbackInOrder(k)
        ELSE IsVerification(k) /\ VerifiesLastReport(k)

\* C28 as stated: the generation call is given None in the first iteration and
\* the verification result of the iteration before in every later one; generation
\* and verification alternate, and each generation is followed by a verification
\* of the report just generated.
C28_EveryGenerationVerified ==
    /\ Alternating
    /\ wf_pc \in {"wf_compile", "wf_returned"} => Len(calls) % 2 = 0

\* C28, amended: the same, but a generation is followed by the verification of
\* its report only when it returned a non-empty dictionary; a generation that
\* raises or returns anything else is the last call of the run.
C28_ValidGenerationVerified ==
    /\ Alternating
    /\ \A k \in DOMAIN calls :
           calls[k].agent = "sar" =>
               IF is_invalid_report(calls[k].result)
               THEN k = Len(calls) /\ wf_pc \in {"wf_compile", "wf_returned"}
               ELSE k < Len(calls) \/ wf_pc = "wf_verify"

\* C28's case: the second generation was given the verification result of the
\* first iteration, and its report was verified
C28_Witness ==
    /\ Len(calls) = 4
    /\ calls[2].result.status = "needs_revision"
    /\ calls[3].verification_feedback = calls[2].result
    /\ calls[3].verification_feedback # None
    /\ calls[4].sar_report = calls[3].result

\* C29: in every result run returns, error_message is set exactly when
\* final_status is error: for an invalid input, an exception of either agent, an
\* empty report and an unrecognised verification status.
C29_MessageIffError ==
    Returned => (final_result.error_message # "none" <=> final_result.final_status = "error")

\* C29's case: the SAR agent returned an empty dictionary in the second iteration
\* and run returned error with a message
C29_Witness ==
    /\ Returned
    /\ Len(calls) = 3
    /\ calls[3].result.kind = "empty_dict"
    /\ final_result.final_status = "error"
    /\ final_result.error_message = "iteration_error"

(***************************************************************************)
(* app.py: the script of the page.  Streamlit runs it from top to bottom   *)
(* on the first load and again after every click; the names of a run are   *)
(* gone in the next one, st.session_state stays.                           *)
(***************************************************************************)
\* line 372: workflow_results = {}
EmptyResults == [bound |-> TRUE, final_status |-> "", has_report |-> FALSE]

\* line 440: what SARWorkflowManager.run returned
Results(status, has_report) ==
    [bound |-> TRUE, final_status |-> status, has_report |-> has_report]

\* the clicks the page as drawn allows: a disabled button cannot be clicked
Clicks ==
    IF script_runs = 0 THEN {"load"}
    ELSE IF app_pc = "script_rerun" THEN {"rerun"}
    ELSE {"other"} \cup (IF can_run_workflow THEN {"run_workflow"} ELSE {})
                   \cup (IF fill_button = "enabled" THEN {"fill_pdf"} ELSE {})

\* lines 1-291: a run of the script begins; session state is initialised when
\* absent (lines 115-120) and the prerequisites of the workflow are evaluated
\* (line 284)
ScriptStart ==
    /\ app_pc \in {"app_start", "script_done", "script_raised", "script_rerun"}
    /\ script_runs < MaxScriptRuns
    /\ clicked' \in Clicks
    /\ can_run_workflow' \in IF clicked' = "run_workflow" THEN {TRUE} ELSE BOOLEAN
    /\ workflow_results' = Unbound
    /\ workflow_status' = "unset"
    /\ can_fill_pdf' = FALSE
    /\ fill_button' = "not_drawn"
    /\ script_runs' = script_runs + 1
    /\ app_pc' = "run_button"
    /\ UNCHANGED <<session_state, PDF_FILLER_LOADED>>
    /\ UNCHANGED outsideApp

\* lines 293-514: the 'Run Full Workflow' button and its handler
RunWorkflowButton ==
    /\ app_pc = "run_button"
    /\ IF clicked = "run_workflow" /\ can_run_workflow
       THEN \/ \* a step before the workflow raises: the handler of line 502
               /\ workflow_results' = EmptyResults
               /\ session_state' = NoSession
            \/ \E status \in FinalStatuses, has_report \in BOOLEAN :
                   /\ workflow_results' = Results(status, has_report)
                   /\ session_state' = [sar_data |-> has_report, filled_pdf_path |-> FALSE]
       ELSE UNCHANGED <<workflow_results, session_state>>
    /\ app_pc' = "pdf_section"
    /\ UNCHANGED <<clicked, can_run_workflow, PDF_FILLER_LOADED, workflow_status,
                   can_fill_pdf, fill_button, script_runs>>
    /\ UNCHANGED outsideApp

\* line 522: workflow_results.get("final_status") if workflow_results else None
status_of(results) == IF results.final_status = "" THEN "none" ELSE results.final_status

\* lines 516-532: the prerequisites of PDF filling; reading a name the run has
\* not bound raises NameError and ends the run of the script
PdfSection ==
    /\ app_pc = "pdf_section"
    /\ IF ~workflow_results.bound
       THEN /\ app_pc' = "script_raised"
            /\ UNCHANGED <<workflow_status, can_fill_pdf>>
       ELSE /\ workflow_status' = status_of(workflow_results)
            /\ can_fill_pdf' = /\ session_state.sar_data
                               /\ PDF_FILLER_LOADED
                               /\ status_of(workflow_results) \in {"approved", "needs_revision"}
            /\ app_pc' = "fill_button"
    /\ UNCHANGED <<clicked, session_state, can_run_workflow, PDF_FILLER_LOADED,
                   workflow_results, fill_button, script_runs>>
    /\ UNCHANGED outsideApp

\* lines 572-591: the download button; a path whose file is gone is forgotten
download_section(state, file_exists) ==
    IF state.filled_pdf_path /\ ~file_exists THEN [state EXCEPT !.filled_pdf_path = FALSE]
    ELSE state

\* lines 535-591: the 'Fill SAR PDF Form' button, its handler and the download
FillPdfButton ==
    /\ app_pc = "fill_button"
    /\ fill_button' = IF can_fill_pdf THEN "enabled" ELSE "disabled"
    /\ \E filled \in {"path", "no_path", "raised"}, file_exists \in BOOLEAN :
           IF clicked = "fill_pdf" /\ can_fill_pdf
           THEN IF filled = "path"
                THEN /\ session_state' = [session_state EXCEPT !.filled_pdf_path = TRUE]
                     /\ app_pc' = "script_rerun"
                ELSE /\ session_state' =
                            download_section([session_state EXCEPT !.filled_pdf_path = FALSE],
                                             file_exists)
                     /\ app_pc' = "script_done"
           ELSE /\ session_state' = download_section(session_state, file_exists)
                /\ app_pc' = "script_done"
    /\ UNCHANGED <<clicked, can_run_workflow, PDF_FILLER_LOADED, workflow_results,
                   workflow_status, can_fill_pdf, script_runs>>
    /\ UNCHANGED outsideApp

InitApp ==
    /\ EngineIdle
    /\ DiscoveryIdle
    /\ AgentsIdle
    /\ WorkflowIdle
    /\ IngestionIdle
    /\ app_pc = "app_start"
    /\ clicked = "none"
    /\ session_state = NoSession
    /\ can_run_workflow = FALSE
    /\ PDF_FILLER_LOADED \in BOOLEAN
    /\ workflow_results = Unbound
    /\ workflow_status = "unset"
    /\ can_fill_pdf = FALSE
    /\ fill_button = "not_drawn"
    /\ script_runs = 0

NextApp ==
    \/ ScriptStart
    \/ RunWorkflowButton
    \/ PdfSection
    \/ FillPdfButton

SpecApp == InitApp /\ [][NextApp]_vars

\* the run of the script has come to the PDF section or further
PastPdfSection == app_pc \in {"fill_button", "script_done", "script_rerun", "script_raised"}

\* C30: on every run of the script in which 'Run Full Workflow' was not clicked
\* (the first load, the run after a click on 'Fill SAR PDF Form'), the PDF section
\* finds the workflow status not available without raising, and PDF filling is
\* enabled only with SAR data and a workflow status approved or needs_revision.
C30_PdfSectionWithoutWorkflow ==
    /\ (clicked # "run_workflow" /\ PastPdfSection) =>
           /\ app_pc # "script_raised"
           /\ workflow_status = "none"
    /\ fill_button = "enabled" =>
           /\ session_state.sar_data
           /\ workflow_status \in {"approved", "needs_revision"}

====
